---- MODULE Spec2Model ----
(***************************************************************************)
(* State-machine model of the markdown documentation viewer               *)
(* (src/docs.js, class GenesDocumentationApp, and its older sibling       *)
(* src/body.js): search over the loaded documents, hash routing,          *)
(* pagination.  Text is modelled as sequences of one-character strings so  *)
(* that toLowerCase, trim, split and includes are computed, not assumed.   *)
(***************************************************************************)
EXTENDS Integers, Sequences, FiniteSets, TLC

(***************************************************************************)
(* Bounds                                                                  *)
(***************************************************************************)
\* longest text a user types into the search overlay input
MaxQueryLen == 3
\* most hashchange events queued by the browser and not yet dispatched
MaxPendingHash == 1
\* most documents of a manifest the navigation is checked on
MaxNavDocs == 3
\* most timers of generateTableOfContents (body.js) pending at once
MaxTocTimers == 2
\* most search timers (setTimeout 100) pending at once
MaxTimers == 1

(***************************************************************************)
(* Text primitives (JavaScript String methods)                             *)
(***************************************************************************)
NL == "\n"

IsSpace(c) == c = " " \/ c = NL

\* String.prototype.toLowerCase, one character
LowerChar(c) == IF c = "A" THEN "a" ELSE IF c = "B" THEN "b" ELSE c

ToLowerCase(s) == [i \in 1..Len(s) |-> LowerChar(s[i])]

RECURSIVE TrimStart(_)
TrimStart(s) ==
  IF s = <<>> THEN s
  ELSE IF IsSpace(Head(s)) THEN TrimStart(Tail(s)) ELSE s

RECURSIVE TrimEnd(_)
TrimEnd(s) ==
  IF s = <<>> THEN s
  ELSE IF IsSpace(s[Len(s)]) THEN TrimEnd(SubSeq(s, 1, Len(s) - 1)) ELSE s

\* String.prototype.trim
Trim(s) == TrimEnd(TrimStart(s))

\* String.prototype.includes
Includes(s, t) == \E i \in 0..(Len(s) - Len(t)) : SubSeq(s, i + 1, i + Len(t)) = t

\* s.split(c) for a one-character separator: always at least one piece
RECURSIVE SplitOn(_, _)
SplitOn(s, c) ==
  IF \A i \in 1..Len(s) : s[i] # c THEN <<s>>
  ELSE LET i == CHOOSE k \in 1..Len(s) : s[k] = c /\ \A j \in 1..(k - 1) : s[j] # c
       IN  <<SubSeq(s, 1, i - 1)>> \o SplitOn(SubSeq(s, i + 1, Len(s)), c)

\* s.split(/\s+/): the separator is a maximal run of whitespace
RECURSIVE SplitWs(_)
SplitWs(s) ==
  IF \A i \in 1..Len(s) : ~IsSpace(s[i]) THEN <<s>>
  ELSE LET i == CHOOSE k \in 1..Len(s) :
                  IsSpace(s[k]) /\ \A j \in 1..(k - 1) : ~IsSpace(s[j])
           e == CHOOSE k \in i..Len(s) :
                  /\ \A j \in i..k : IsSpace(s[j])
                  /\ (k = Len(s) \/ ~IsSpace(s[k + 1]))
       IN  <<SubSeq(s, 1, i - 1)>> \o SplitWs(SubSeq(s, e + 1, Len(s)))

\* pieces.join(c)
RECURSIVE Join(_, _)
Join(pieces, c) ==
  IF pieces = <<>> THEN <<>>
  ELSE IF Len(pieces) = 1 THEN pieces[1]
  ELSE pieces[1] \o <<c>> \o Join(Tail(pieces), c)

\* .filter(w => w) / .filter(Boolean) on an array of strings
FilterNonEmpty(ws) == SelectSeq(ws, LAMBDA w : w # <<>>)

\* file.name.toLowerCase().replace(/\s+/g, '-')
Slugify(name) == Join(SplitWs(ToLowerCase(name)), "-")

(***************************************************************************)
(* Documents and manifests                                                 *)
(***************************************************************************)
\* One docs.json entry together with what its fetch returns.  `throws` tells
\* whether the external renderer md.render throws on this content, and
\* `headings` are the ranks of the h1..h6 elements the renderer produces.
\* a heading without an id attribute
NoId == ""

Doc(name, section, content, throws, headings) ==
  [name |-> name, section |-> section, content |-> content,
   throws |-> throws, headings |-> headings,
   ids |-> [k \in 1..Len(headings) |-> NoId]]

\* the document with headings written as HTML that carry the ids
\* (markdown-it is created with html: true)
WithIds(doc, ids) == [doc EXCEPT !.ids = ids]

\* "Ab": duplicate lines, a line with a leading blank, h1 h2 h3
DocAb == Doc(<<"A", "b">>, "Guides",
             <<"a", " ", "b", NL, " ", "b", " ", "a", NL, "a", " ", "b">>,
             FALSE, <<1, 2, 3>>)
\* "B a": the two terms only ever occur on different lines
DocBa == Doc(<<"B", " ", "a">>, "Guides", <<"a", NL, "b">>, FALSE, <<>>)
\* "aa": upper-case content with trailing blanks, two lines that hold "ab",
\* no section, only an h1
DocAa == Doc(<<"a", "a">>, "",
             <<"a", "a", NL, "A", "B", " ", " ", NL, "b", "a", "b">>,
             FALSE, <<1>>)
\* "b": the renderer throws on its content
DocB == Doc(<<"b">>, "", <<"a", NL, "a", "b">>, TRUE, <<>>)
\* "A  b" and "a b": two names with the same slug a-b
DocA2b == Doc(<<"A", " ", " ", "b">>, "Ref", <<"b", " ", "a">>, FALSE, <<2, 2>>)
DocA1b == Doc(<<"a", " ", "b">>, "Ref", <<>>, FALSE, <<>>)

\* the manifests docs.json may hold (appSpec.documentation.files)
Manifests ==
  { <<>>,
    <<DocAa>>,
    <<DocAb, DocB, DocAa>> }

\* "c" in the section "constructor", "d" in the section "General"
DocCtor == Doc(<<"c">>, "constructor", <<"c">>, FALSE, <<>>)
DocGen == Doc(<<"d">>, "General", <<"d">>, FALSE, <<>>)

\* "ab" with the content "abab", "a." with "aa." and "a(" with "a(b": texts
\* with adjacent occurrences and with characters special in a RegExp
DocAbab == Doc(<<"a", "b">>, "", <<"a", "b", "a", "b">>, FALSE, <<>>)
DocDot == Doc(<<"a", ".">>, "", <<"a", "a", ".">>, FALSE, <<>>)
DocParen == Doc(<<"a", "(">>, "", <<"a", "(", "b">>, FALSE, <<>>)

\* "heading-0": a name (one word, written as one character) whose slug is
\* the id generateTableOfContents gives to the first heading; its own
\* headings are h2, h4 with the id "intro", h3
DocH0 == WithIds(Doc(<<"heading-0">>, "", <<"a", "b">>, FALSE, <<2, 4, 3>>),
                 <<NoId, "intro", NoId>>)

\* a store with such a document behind one whose headings have no id
HeadingIdManifests == { <<DocAb, DocH0>> }

\* the manifests the highlighting is checked on
HighlightManifests == { <<DocAbab, DocDot, DocParen>>, <<DocDot, DocAb>> }

\* all sequences over the set S of length 1..n
SeqsUpTo(S, n) == UNION { [1..k -> S] : k \in 1..n }

\* the manifests the navigation is checked on
NavManifests ==
  SeqsUpTo({DocAb, DocAa, DocA2b, DocA1b, DocGen, DocCtor}, MaxNavDocs)

\* the manifests the search is checked on
SearchManifests ==
  Manifests \cup
  { <<DocAb, DocBa, DocAa>>,
    <<DocBa, DocB, DocAb>>,
    <<DocA2b, DocA1b, DocAa>> }

\* files.forEach(file => file.slug = ...): every entry gets its slug
AddSlugs(m) ==
  [i \in 1..Len(m) |->
     [name |-> m[i].name, section |-> m[i].section, content |-> m[i].content,
      throws |-> m[i].throws, headings |-> m[i].headings, ids |-> m[i].ids,
      slug |-> Slugify(m[i].name)]]

(***************************************************************************)
(* Search: the scan of performSearch                                       *)
(***************************************************************************)
\* query.split(/\s+/).filter(w => w)
QueryWords(query) == FilterNonEmpty(SplitWs(query))

\* mutant of LineMatches: some instead of every
LineMatchesAny(line, queryWords) ==
  \E k \in 1..Len(queryWords) : Includes(ToLowerCase(line), queryWords[k])

\* queryWords.every(word => lowerLine.includes(word))
LineMatches(line, queryWords) ==
  \A k \in 1..Len(queryWords) : Includes(ToLowerCase(line), queryWords[k])

\* content.split('\n').forEach((line, index) => ... matchedLines.push(...)):
\* lines[from..] are visited in order, `acc` is matchedLines so far
RECURSIVE ScanLines(_, _, _, _)
ScanLines(lines, from, queryWords, acc) ==
  IF from > Len(lines) THEN acc
  ELSE ScanLines(lines, from + 1, queryWords,
         IF LineMatches(lines[from], queryWords)
         THEN Append(acc, [line |-> Trim(lines[from]), index |-> from - 1])
         ELSE acc)

\* mutant of MatchedLines: a line text already collected is not pushed again
RECURSIVE ScanLinesUnique(_, _, _, _)
ScanLinesUnique(lines, from, queryWords, acc) ==
  IF from > Len(lines) THEN acc
  ELSE ScanLinesUnique(lines, from + 1, queryWords,
         IF /\ LineMatches(lines[from], queryWords)
            /\ \A k \in 1..Len(acc) : acc[k].line # Trim(lines[from])
         THEN Append(acc, [line |-> Trim(lines[from]), index |-> from - 1])
         ELSE acc)

MatchedLinesUnique(content, queryWords) ==
  ScanLinesUnique(SplitOn(content, NL), 1, queryWords, <<>>)

MatchedLines(content, queryWords) ==
  ScanLines(SplitOn(content, NL), 1, queryWords, <<>>)

\* title.toLowerCase().includes(query)
TitleMatch(file, query) == Includes(ToLowerCase(file.name), query)

\* mutant of ScanFiles: results.unshift instead of results.push
RECURSIVE ScanFilesUnshift(_, _, _, _)
ScanFilesUnshift(fs, from, query, acc) ==
  IF from > Len(fs) THEN acc
  ELSE LET file == fs[from]
           titleMatch == TitleMatch(file, query)
           matchedLines == MatchedLines(file.content, QueryWords(query))
       IN  ScanFilesUnshift(fs, from + 1, query,
             IF titleMatch \/ Len(matchedLines) > 0
             THEN <<[title |-> file.name, slug |-> file.slug,
                     matchedLines |-> matchedLines,
                     titleMatch |-> titleMatch]>> \o acc
             ELSE acc)

\* files.forEach(file => ... results.push(...)): files[from..] in order
RECURSIVE ScanFiles(_, _, _, _)
ScanFiles(fs, from, query, acc) ==
  IF from > Len(fs) THEN acc
  ELSE LET file == fs[from]
           titleMatch == TitleMatch(file, query)
           matchedLines == MatchedLines(file.content, QueryWords(query))
       IN  ScanFiles(fs, from + 1, query,
             IF titleMatch \/ Len(matchedLines) > 0
             THEN Append(acc, [title |-> file.name, slug |-> file.slug,
                               matchedLines |-> matchedLines,
                               titleMatch |-> titleMatch])
             ELSE acc)

\* what the results container shows
\* innerHTML = ''
EmptyBox == [kind |-> "empty", items |-> <<>>]
\* <div class="search-hint">Type at least 2 characters to search...</div>
HintBox == [kind |-> "hint", items |-> <<>>]
\* <div class="search-loading">Searching...</div>
LoadingBox == [kind |-> "loading", items |-> <<>>]

\* query.trim().split(/\s+/).filter(Boolean): the alternatives of the
\* pattern of highlightText, in the order of the query
HighlightTerms(query) == FilterNonEmpty(SplitWs(Trim(query)))

\* new RegExp(`(${terms.join('|')})`, 'gi') throws a SyntaxError: of the
\* characters of the model "(" opens a group that is never closed
RegExpThrows(terms) ==
  \E k \in 1..Len(terms) : \E i \in 1..Len(terms[k]) : terms[k][i] = "("

\* one character of the pattern against one character of the text, flag i:
\* "." is not escaped and matches any character but a line break
AtomMatches(atom, c) ==
  IF atom = "." THEN c # NL ELSE LowerChar(atom) = LowerChar(c)

\* the alternative `term` matches the text at position p (1-based)
TermMatchesAt(term, text, p) ==
  /\ p + Len(term) - 1 <= Len(text)
  /\ \A i \in 1..Len(term) : AtomMatches(term[i], text[p + i - 1])

\* the length of the match of the alternation at position p: the first
\* alternative that matches there wins; 0 when none does
FirstMatchLen(terms, text, p) ==
  IF \E k \in 1..Len(terms) : TermMatchesAt(terms[k], text, p)
  THEN Len(terms[CHOOSE k \in 1..Len(terms) :
                   /\ TermMatchesAt(terms[k], text, p)
                   /\ \A j \in 1..(k - 1) : ~TermMatchesAt(terms[j], text, p)])
  ELSE 0

\* text[from..to] as a piece outside a span, nothing when it is empty
PlainPiece(text, from, to) ==
  IF from <= to THEN <<[text |-> SubSeq(text, from, to), hl |-> FALSE]>>
  ELSE <<>>

\* text.replace(regex, '<span class="highlight">$1</span>') with flag g:
\* the matches are taken from left to right without overlap.  The result
\* is the sequence of pieces of the text, hl telling the pieces inside a
\* span; `plain` is where the piece outside a span began
RECURSIVE ReplaceAll(_, _, _, _, _)
ReplaceAll(text, p, terms, plain, acc) ==
  IF p > Len(text) THEN acc \o PlainPiece(text, plain, Len(text))
  ELSE LET n == FirstMatchLen(terms, text, p)
       IN  IF n = 0 THEN ReplaceAll(text, p + 1, terms, plain, acc)
           ELSE ReplaceAll(text, p + n, terms, p + n,
                  acc \o PlainPiece(text, plain, p - 1)
                      \o <<[text |-> SubSeq(text, p, p + n - 1), hl |-> TRUE]>>)

\* highlightText(text, query), for a query for which RegExp does not throw
HighlightText(text, query) ==
  IF query = <<>> THEN PlainPiece(text, 1, Len(text))
  ELSE ReplaceAll(text, 1, HighlightTerms(query), 1, <<>>)

\* <em>Match in title</em>
TitleMatchSnippet == [kind |-> "titleMatch", html |-> <<>>, raw |-> FALSE]
\* snippetHTML = ''
NoSnippet == [kind |-> "none", html |-> <<>>, raw |-> FALSE]

\* the texts on which md.renderInline throws; the renderer is external, so
\* this is a datum of the environment like `throws` of a document
InlineThrowingTexts == { <<"a", "b">> }

\* md.renderInline(text) throws
InlineThrows(text) == text \in InlineThrowingTexts

\* mutant of SnippetIsRaw: a failure of md.renderInline is not caught as raw
\* text
SnippetIsRawUncaught(text, inline) == ~inline

\* the snippet is the raw line, not its rendering: renderInline is not tried
\* (`inline` is md && md.renderInline; body.js never tries) or it threw and
\* the catch fell back to snippetText
SnippetIsRaw(text, inline) == ~inline \/ InlineThrows(text)

\* mutant of SnippetOf: matchedLines[1] of JavaScript, the second matched
\* line, is shown when there is one
SnippetOfSecond(result, query, inline) ==
  IF Len(result.matchedLines) > 1
  THEN [kind |-> "line",
        html |-> HighlightText(result.matchedLines[2].line, query),
        raw |-> SnippetIsRaw(result.matchedLines[2].line, inline)]
  ELSE IF Len(result.matchedLines) > 0
  THEN [kind |-> "line",
        html |-> HighlightText(result.matchedLines[1].line, query),
        raw |-> SnippetIsRaw(result.matchedLines[1].line, inline)]
  ELSE IF result.titleMatch THEN TitleMatchSnippet
  ELSE NoSnippet

\* the snippet of a result link: the first matched line, highlighted, else
\* the marker of a title match.  docs.js passes the line through
\* md.renderInline first (`raw` tells whether the raw line is what is
\* shown); the texts of the model have no markdown syntax, so the rendering
\* has the same characters
SnippetOf(result, query, inline) ==
  IF Len(result.matchedLines) > 0
  THEN [kind |-> "line",
        html |-> HighlightText(result.matchedLines[1].line, query),
        raw |-> SnippetIsRaw(result.matchedLines[1].line, inline)]
  ELSE IF result.titleMatch THEN TitleMatchSnippet
  ELSE NoSnippet

\* the link built for one result: the result with its title and snippet
ResultLink(result, query, inline) ==
  [title |-> result.title, slug |-> result.slug,
   matchedLines |-> result.matchedLines, titleMatch |-> result.titleMatch,
   titleHTML |-> HighlightText(result.title, query),
   snippet |-> SnippetOf(result, query, inline)]

\* highlightText is called for the title of the first result and its
\* new RegExp throws: the exception leaves displaySearchResults
DisplayThrows(results, query) ==
  Len(results) > 0 /\ RegExpThrows(HighlightTerms(query))

\* displaySearchResults: one link per result, or the "No results found"
\* box.  The container is emptied first; when highlightText throws for the
\* first result, no link has been appended and it stays empty
DisplaySearchResults(results, query, inline) ==
  IF Len(results) > 0
  THEN IF DisplayThrows(results, query)
       THEN EmptyBox
       ELSE [kind |-> "results",
             items |-> [k \in 1..Len(results) |-> ResultLink(results[k], query, inline)]]
  ELSE [kind |-> "noresults", items |-> <<>>]

\* searchOverlayInput.value.toLowerCase().trim()
NormalizeQuery(raw) == Trim(ToLowerCase(raw))

\* mutant of PerformSearchDocs: the timer is started without "Searching..."
PerformSearchDocsNoIndicator(query, timers) ==
  IF Len(query) < 2
  THEN [box |-> HintBox, timers |-> timers]
  ELSE [box |-> EmptyBox, timers |-> Append(timers, query)]

\* performSearch of docs.js: the hint, or "Searching..." and a 100 ms timer
\* that carries the query
PerformSearchDocs(query, timers) ==
  IF Len(query) < 2
  THEN [box |-> HintBox, timers |-> timers]
  ELSE [box |-> LoadingBox, timers |-> Append(timers, query)]

\* performSearch of body.js: synchronous, and nothing is shown for a short query
PerformSearchBody(query, fs) ==
  IF Len(query) < 2
  THEN EmptyBox
  ELSE DisplaySearchResults(ScanFiles(fs, 1, query, <<>>), query, FALSE)

(***************************************************************************)
(* Routing: loadMarkdown, updatePagination, navigateToSlug                 *)
(***************************************************************************)
\* mutant of FindIndex: the name is compared instead of the slug
FindIndexByName(fs, slug) ==
  IF \E i \in 1..Len(fs) : fs[i].name = slug
  THEN (CHOOSE i \in 1..Len(fs) :
          fs[i].name = slug /\ \A j \in 1..(i - 1) : fs[j].name # slug) - 1
  ELSE -1

\* files.findIndex(f => f.slug === slug): JavaScript index, -1 when absent
FindIndex(fs, slug) ==
  IF \E i \in 1..Len(fs) : fs[i].slug = slug
  THEN (CHOOSE i \in 1..Len(fs) :
          fs[i].slug = slug /\ \A j \in 1..(i - 1) : fs[j].slug # slug) - 1
  ELSE -1

\* what the #content element shows; `ids` tells whether its h2..h6 elements
\* carry an id (generateTableOfContents gave them one)
LoadingContent == [kind |-> "loading", idx |-> -1, ids |-> FALSE]
\* 'Failed to load documentation list.' (the .catch of initializeApp, body.js)
ListFailedContent == [kind |-> "listfailed", idx |-> -1, ids |-> FALSE]

\* showError of docs.js: document.body is replaced by
\* 'Failed to initialize application: ...'
InitErrorContent == [kind |-> "initerror", idx |-> -1, ids |-> FALSE]

\* 'Failed to load Markdown file.'
NotFoundContent == [kind |-> "notfound", idx |-> -1, ids |-> FALSE]
\* 'Error: markdown-it library not loaded'
NoMdContent == [kind |-> "nomd", idx |-> -1, ids |-> FALSE]
\* 'Error rendering markdown content'
RenderErrorContent == [kind |-> "rendererror", idx |-> -1, ids |-> FALSE]
\* md.render(files[idx].content), freshly written: no heading has an id yet
DocContent(idx) == [kind |-> "doc", idx |-> idx, ids |-> FALSE]

\* location.hash for a fragment: '' when the fragment is empty
LocationHash(frag) == IF frag = <<>> THEN <<>> ELSE <<"#">> \o frag

\* mutant of SlugFromHash: no fallback to the first document
SlugFromHashOnly(frag, fs) == frag

\* location.hash.substring(1) || (files[0] ? files[0].slug : '')
SlugFromHash(frag, fs) ==
  IF frag # <<>> THEN frag
  ELSE IF Len(fs) > 0 THEN fs[1].slug ELSE <<>>

\* `heading-${index}`
HeadingIds == <<"heading-0", "heading-1", "heading-2">>

NoHeading == {}
NoLink == <<"none">>
\* scrollToSearchResult has not asked the container to scroll
NoScrollReq == [kind |-> "none", top |-> 0]

\* the page as generateHTMLStructure / body.html creates it
InitialDom ==
  [content |-> LoadingContent, scrolled |-> FALSE, activeLink |-> NoLink,
   nav |-> <<>>,
   toc |-> <<>>, tocDisplay |-> "", observers |-> 0, observerLive |-> FALSE,
   activeToc |-> NoHeading]

\* mutant of TocHeadings: h1 is selected too
TocHeadingsWithH1(content, fs) ==
  IF content.kind = "doc" THEN fs[content.idx + 1].headings ELSE <<>>

\* content.querySelectorAll('h2, h3, h4, h5, h6'): the ranks, in document order
TocHeadings(content, fs) ==
  IF content.kind = "doc"
  THEN SelectSeq(fs[content.idx + 1].headings, LAMBDA r : r >= 2)
  ELSE <<>>

\* mutant of SetupIntersectionObserver: the old observer stays connected
SetupIntersectionObserverKeep(d, fs) ==
  IF Len(TocHeadings(d.content, fs)) = 0 THEN d
  ELSE [d EXCEPT !.observers = @ + 1, !.observerLive = TRUE]

\* setupIntersectionObserver: the observer onThisPageObserver refers to is
\* disconnected, and when the content has headings a new one observes them.
\* `observers` counts the connected observers
SetupIntersectionObserver(d, fs) ==
  LET off == [d EXCEPT !.observers = IF @ > 0 THEN @ - 1 ELSE 0,
                       !.observerLive = FALSE]
  IN  IF Len(TocHeadings(d.content, fs)) = 0 THEN off
      ELSE [off EXCEPT !.observers = @ + 1, !.observerLive = TRUE]

\* the id attributes the rendered headings of TocHeadings have
TocHeadingIds(content, fs) ==
  IF content.kind = "doc"
  THEN LET file == fs[content.idx + 1]
           at == SelectSeq([i \in 1..Len(file.headings) |-> i],
                           LAMBDA i : file.headings[i] >= 2)
       IN  [k \in 1..Len(at) |-> file.ids[at[k]]]
  ELSE <<>>

\* mutant of HeadingId: every heading gets the synthetic id
HeadingIdSynthetic(ids, k) == HeadingIds[k]

\* if (!heading.id) heading.id = `heading-${index}`: the id of the k-th
\* collected heading after the loop
HeadingId(ids, k) ==
  IF k \in DOMAIN ids /\ ids[k] # NoId THEN ids[k] ELSE HeadingIds[k]

\* a.style.paddingLeft is not set
NoPadding == 0

\* if (level > 2) a.style.paddingLeft = `${16 + (level - 2) * 12}px`
PaddingLeft(level) == IF level > 2 THEN 16 + (level - 2) * 12 ELSE NoPadding

\* generateTableOfContents on the page d
GenerateTableOfContents(d, fs) ==
  LET hs == TocHeadings(d.content, fs)
      ids == TocHeadingIds(d.content, fs)
  IN  IF Len(hs) = 0
      THEN [d EXCEPT !.toc = <<>>, !.tocDisplay = "none",
                     !.activeToc = NoHeading]
      ELSE SetupIntersectionObserver(
             [d EXCEPT !.toc = [k \in 1..Len(hs) |->
                                  [id |-> HeadingId(ids, k), level |-> hs[k],
                                   padding |-> PaddingLeft(hs[k])]],
                       !.tocDisplay = "block",
                       !.content.ids = TRUE,
                       !.activeToc = NoHeading],
             fs)

\* document.getElementById('content').innerHTML = ...: the old elements leave
\* the document, so a connected observer no longer sees a heading of the page
WriteContent(d, c) == [d EXCEPT !.content = c, !.observerLive = FALSE]

\* mutant of LoadMarkdownDocs: an unknown slug leaves the page as it is
LoadMarkdownDocsSilent(slug, fs, mdv, d) ==
  LET idx == FindIndex(fs, slug)
  IN  IF idx # -1
      THEN IF ~mdv
           THEN [dom |-> WriteContent(d, NoMdContent), threw |-> FALSE]
           ELSE IF fs[idx + 1].throws
           THEN [dom |-> WriteContent(d, RenderErrorContent), threw |-> FALSE]
           ELSE [dom |-> GenerateTableOfContents(
                           [WriteContent(d, DocContent(idx))
                              EXCEPT !.scrolled = FALSE, !.activeLink = slug],
                           fs),
                 threw |-> FALSE]
      ELSE [dom |-> d, threw |-> FALSE]

\* loadMarkdown of docs.js on the page d; `threw` tells whether an exception
\* leaves the function
LoadMarkdownDocs(slug, fs, mdv, d) ==
  LET idx == FindIndex(fs, slug)
  IN  IF idx # -1
      THEN IF ~mdv
           THEN [dom |-> WriteContent(d, NoMdContent), threw |-> FALSE]
           ELSE IF fs[idx + 1].throws
           THEN [dom |-> WriteContent(d, RenderErrorContent), threw |-> FALSE]
           ELSE [dom |-> GenerateTableOfContents(
                           [WriteContent(d, DocContent(idx))
                              EXCEPT !.scrolled = FALSE, !.activeLink = slug],
                           fs),
                 threw |-> FALSE]
      ELSE [dom |-> WriteContent(d, NotFoundContent), threw |-> FALSE]

\* loadMarkdown of body.js (originalLoadMarkdown): no check of md, no
\* try/catch around md.render, the table of contents is left to a timer
LoadMarkdownBody(slug, fs, d) ==
  LET idx == FindIndex(fs, slug)
  IN  IF idx # -1
      THEN IF fs[idx + 1].throws
           THEN [dom |-> d, threw |-> TRUE]
           ELSE [dom |-> [WriteContent(d, DocContent(idx))
                            EXCEPT !.scrolled = FALSE, !.activeLink = slug],
                 threw |-> FALSE]
      ELSE [dom |-> WriteContent(d, NotFoundContent), threw |-> FALSE]

\* file['doc-section'] || 'General'
Label(file) == IF file.section = "" THEN "General" ELSE file.section

\* labels for which acc[label] of the object literal {} is an inherited,
\* truthy property of Object.prototype that has no push method
InheritedKeys == {"constructor"}

\* labelOrder: the labels of fs[from..] not in `seen`, in first-seen order
RECURSIVE LabelOrder(_, _, _)
LabelOrder(fs, from, seen) ==
  IF from > Len(fs) THEN <<>>
  ELSE IF Label(fs[from]) \in seen THEN LabelOrder(fs, from + 1, seen)
  ELSE <<Label(fs[from])>>
         \o LabelOrder(fs, from + 1, seen \cup {Label(fs[from])})

\* groups[label]: the documents (their JS indices) with that label, in order
Group(fs, label) ==
  LET idxs == [i \in 1..Len(fs) |-> i - 1]
  IN  SelectSeq(idxs, LAMBDA i : Label(fs[i + 1]) = label)

\* renderNav: the sections of #nav, each with the links of its documents;
\* the reduce throws a TypeError at a label that is an inherited key, after
\* nav.innerHTML = ''
RenderNav(fs) ==
  IF \E i \in 1..Len(fs) : Label(fs[i]) \in InheritedKeys
  THEN [threw |-> TRUE, nav |-> <<>>]
  ELSE LET order == LabelOrder(fs, 1, {})
       IN  [threw |-> FALSE,
            nav |-> [k \in 1..Len(order) |->
                       [label |-> order[k], links |-> Group(fs, order[k])]]]

\* the pagination buttons as the page's HTML creates them: disabled, no target
InitialPagination ==
  [prevDisabled |-> TRUE, nextDisabled |-> TRUE,
   prevTarget |-> <<>>, nextTarget |-> <<>>]

\* mutant of UpdatePagination: next-btn is not disabled for an unknown slug
UpdatePaginationNextOpen(currentSlug, fs, cur) ==
  IF Len(fs) = 0 THEN cur
  ELSE LET idx == FindIndex(fs, currentSlug)
       IN  [prevDisabled |-> idx <= 0,
            nextDisabled |-> idx >= Len(fs) - 1,
            prevTarget |-> IF idx > 0 THEN fs[idx].slug ELSE <<>>,
            nextTarget |-> IF idx < Len(fs) - 1 THEN fs[idx + 2].slug ELSE <<>>]

\* mutant of UpdatePagination: prev-btn is disabled at index 0 only
UpdatePaginationPrevAtZero(currentSlug, fs, cur) ==
  IF Len(fs) = 0 THEN cur
  ELSE LET idx == FindIndex(fs, currentSlug)
       IN  [prevDisabled |-> idx = 0,
            nextDisabled |-> (idx = -1 \/ idx >= Len(fs) - 1),
            prevTarget |-> IF idx > 0 THEN fs[idx].slug ELSE <<>>,
            nextTarget |-> IF idx < Len(fs) - 1 THEN fs[idx + 2].slug ELSE <<>>]

\* updatePagination(currentSlug) on the buttons `cur`
UpdatePagination(currentSlug, fs, cur) ==
  IF Len(fs) = 0 THEN cur
  ELSE LET idx == FindIndex(fs, currentSlug)
       IN  [prevDisabled |-> idx <= 0,
            nextDisabled |-> (idx = -1 \/ idx >= Len(fs) - 1),
            prevTarget |-> IF idx > 0 THEN fs[idx].slug ELSE <<>>,
            nextTarget |-> IF idx < Len(fs) - 1 THEN fs[idx + 2].slug ELSE <<>>]

\* loadMarkdown as the running script defines it.  In body.js the function is
\* wrapped: after originalLoadMarkdown returns, generateTableOfContents is
\* left to a 100 ms timer (`tocTimers` counts the pending ones)
LoadMarkdown(i, slug, fs, mdv, d, tt) ==
  IF i = "docs"
  THEN [dom |-> LoadMarkdownDocs(slug, fs, mdv, d).dom, tocTimers |-> tt,
        threw |-> FALSE]
  ELSE LET r == LoadMarkdownBody(slug, fs, d)
       IN  [dom |-> r.dom,
            tocTimers |-> IF r.threw THEN tt ELSE tt + 1,
            threw |-> r.threw]

\* location.hash = target, on st = [fragment, pendingHash, ...]: the fragment
\* is replaced and, when it changed, the browser queues a hashchange event
SetHash(target, st) ==
  IF target # st.fragment
  THEN [st EXCEPT !.fragment = target, !.pendingHash = st.pendingHash + 1]
  ELSE st

\* mutant of NavigateToSlug: nothing happens when the slug is the fragment
NavigateToSlugOnce(slug, i, fs, mdv, st) ==
  IF LocationHash(st.fragment) # <<"#">> \o slug
  THEN SetHash(slug, st)
  ELSE st

\* navigateToSlug(slug) on st = [fragment, pendingHash, dom, tocTimers,
\* rendered]; `rendered` receives the slug passed to loadMarkdown
NavigateToSlug(slug, i, fs, mdv, st) ==
  IF LocationHash(st.fragment) # <<"#">> \o slug
  THEN SetHash(slug, st)
  ELSE LET r == LoadMarkdown(i, slug, fs, mdv, st.dom, st.tocTimers)
       IN  [st EXCEPT !.dom = r.dom, !.tocTimers = r.tocTimers,
                      !.rendered = <<slug>>, !.threw = r.threw]

\* the hashchange listener, and the "Load initial content" lines of
\* setupApplication / initializeApp: loadMarkdown(slug); updatePagination(slug)
\* on st = [dom, tocTimers, pagination]; `threw` tells that loadMarkdown
\* threw, which skips updatePagination
RouteToHash(frag, i, fs, mdv, st) ==
  LET slug == SlugFromHash(frag, fs)
      r == LoadMarkdown(i, slug, fs, mdv, st.dom, st.tocTimers)
  IN  [dom |-> r.dom, tocTimers |-> r.tocTimers, threw |-> r.threw,
       pagination |-> IF r.threw THEN st.pagination
                      ELSE UpdatePagination(slug, fs, st.pagination)]

\* the click listener of prev-btn / next-btn, run for a button whose
\* dataset.target is `target`: if (target) location.hash = target
PaginationClick(target, st) ==
  IF target # <<>> THEN SetHash(target, st) ELSE st

\* mutant of ButtonClick: the listener also runs for a disabled control
ButtonClickAlways(disabled, target, st) == PaginationClick(target, st)

\* a click on a <button>, by the mouse or by btn.click(): the browser
\* dispatches no click event to a disabled button
ButtonClick(disabled, target, st) ==
  IF disabled THEN st ELSE PaginationClick(target, st)

\* handleArrowKeyNavigation for one of the two keys
ArrowKey(disabled, target, st) ==
  IF ~disabled THEN ButtonClick(disabled, target, st) ELSE st

(***************************************************************************)
(* State                                                                   *)
(***************************************************************************)
VARIABLES
  impl,          \* which script runs the page: "docs" (docs.js) or "body" (body.js)
  phase,         \* "loading" until the manifest and all documents are loaded
  md,            \* whether the markdown-it instance exists
  files,         \* the document store
  load,          \* the fetches of the initial load: the manifest received,
                 \* the documents (positions) fetched, those that failed
  fragment,      \* the URL fragment, without its '#'
  pendingHash,   \* hashchange events queued and not yet dispatched
  dom,           \* content pane, nav highlight, table of contents, observer
  pagination,    \* prev-btn / next-btn: disabled flags and dataset.target
  overlayOpen,   \* whether the search overlay is displayed
  searchValue,   \* value of search-overlay-input
  resultsBox,    \* what search-overlay-results shows
  searchTimers,  \* queries of the pending setTimeout(..., 100) of performSearch
  scrollTimers,  \* the pending setTimeout(..., 300) scrolls: their matched
                 \* line and the slug of the result in their closure
  tocTimers,     \* pending setTimeout(generateTableOfContents, 100) of body.js
  lastOp         \* the routing or pagination handler that ran in the last
                 \* step, the slug it passed to loadMarkdown (<<>> when
                 \* it did not call it) and the scroll it asked for

vars == <<impl, phase, md, files, load, fragment, pendingHash, dom, pagination,
          overlayOpen, searchValue, resultsBox, searchTimers, scrollTimers,
          tocTimers, lastOp>>

navVars == <<fragment, pendingHash, dom, pagination, tocTimers>>
searchVars == <<overlayOpen, searchValue, resultsBox, searchTimers>>
envVars == <<impl, phase, md, files, load>>

Op(op, rendered) ==
  [op |-> op, rendered |-> rendered, scroll |-> NoScrollReq, history |-> "none",
   uncaught |-> FALSE]
\* the handler or timer callback ended (threw = TRUE) by an exception that
\* nothing catches
Ended(o, threw) == [o EXCEPT !.uncaught = threw]
\* the 300 ms timer ran scrollToSearchResult, which asked for req
ScrollOp(req) == [Op("scrollTimeout", <<>>) EXCEPT !.scroll = req]
\* the handler assigned location.hash: a changed fragment adds an entry to
\* the session history
HashOp(op, rendered, before, after) ==
  [Op(op, rendered) EXCEPT !.history = IF after # before THEN "push" ELSE "none"]
\* the handler called history.replaceState: the current entry is replaced
ReplaceOp(op) == [Op(op, <<>>) EXCEPT !.history = "replace"]
\* handlers that neither route nor paginate are not told apart
OtherOp == Op("other", <<>>)

\* a fragment that is the slug of no document
UnknownSlug == <<"z">>

\* fragments the page may be opened with
InitialFragments == { <<>>, UnknownSlug, <<"a", "a">> }

\* texts typed into the search overlay in the full specification
TypedQueries == { <<"a">>, <<"a", "B">> }

\* all texts of at most MaxQueryLen characters over {a, B, blank}
RECURSIVE TextsUpTo(_)
TextsUpTo(n) ==
  IF n = 0 THEN { <<>> }
  ELSE LET shorter == TextsUpTo(n - 1)
       IN  shorter \cup { Append(t, c) : t \in { u \in shorter : Len(u) = n - 1 },
                                         c \in {"a", "B", " "} }

AllQueries == TextsUpTo(MaxQueryLen)

\* all texts of at most n characters of S
RECURSIVE TextsOver(_, _)
TextsOver(S, n) ==
  IF n = 0 THEN { <<>> }
  ELSE LET shorter == TextsOver(S, n - 1)
       IN  shorter \cup { Append(t, c) : t \in { u \in shorter : Len(u) = n - 1 },
                                         c \in S }

\* the texts typed where the highlighting is checked
HighlightQueries == TextsOver({"a", "b", " ", ".", "("}, MaxQueryLen)

\* whether the script's listeners are registered: body.js registers them in
\* initializeApp before the load, docs.js in setupApplication after it
\* no fetch of the initial load has completed
NoLoad == [manifest |-> <<>>, got |-> {}, failed |-> {}]

ListenersOn == impl = "body" \/ phase = "ready"

\* the page before the load has finished, in one of `phases`, opened with
\* one of the fragments `frags`
InitAt(phases, frags) ==
  /\ impl \in {"docs", "body"}
  /\ phase \in phases
  /\ md \in (IF impl = "docs" THEN BOOLEAN ELSE {TRUE})
  /\ files = <<>>
  /\ load = NoLoad
  /\ fragment \in frags
  /\ pendingHash = 0
  /\ dom = InitialDom
  /\ pagination = InitialPagination
  /\ overlayOpen = FALSE
  /\ searchValue = <<>>
  /\ resultsBox = EmptyBox
  /\ searchTimers = <<>>
  /\ scrollTimers = <<>>
  /\ tocTimers = 0
  /\ lastOp = Op("init", <<>>)

\* all fetches are in flight
Init == InitAt({"loading"}, InitialFragments)

(***************************************************************************)
(* Actions                                                                 *)
(***************************************************************************)
\* window 'load' listener of docs.js: initializeMarkdown
InitializeMarkdown ==
  /\ impl = "docs" /\ ~md
  /\ md' = TRUE
  /\ lastOp' = OtherOp
  /\ UNCHANGED <<impl, phase, files, load, navVars, searchVars, scrollTimers>>

\* the load succeeded with manifest m: loadDocumentationFiles and
\* setupApplication (docs.js), the last .then of initializeApp (body.js).
\* An exception of renderNav ends the set-up: docs.js logs it, in body.js
\* it rejects the promise chain, as does an exception of loadMarkdown, and
\* the .catch writes its message into the content
SetupPage(m) ==
  /\ impl = "body" => tocTimers < MaxTocTimers
  /\ LET fs == AddSlugs(m)
         n == RenderNav(fs)
         r == RouteToHash(fragment, impl, fs, md,
                [dom |-> [dom EXCEPT !.nav = n.nav], tocTimers |-> tocTimers,
                 pagination |-> pagination])
     IN  /\ files' = fs
         /\ IF n.threw
            THEN /\ phase' = "failed"
                 /\ dom' = IF impl = "body"
                           THEN WriteContent([dom EXCEPT !.nav = <<>>],
                                             ListFailedContent)
                           ELSE [dom EXCEPT !.nav = <<>>]
                 /\ lastOp' = Op("setupFailed", <<>>)
                 /\ UNCHANGED <<tocTimers, pagination>>
            ELSE /\ phase' = "ready"
                 /\ dom' = IF r.threw
                           THEN WriteContent(r.dom, ListFailedContent)
                           ELSE r.dom
                 /\ tocTimers' = r.tocTimers
                 /\ pagination' = r.pagination
                 /\ lastOp' = Op("setup", <<SlugFromHash(fragment, fs)>>)
  /\ UNCHANGED <<impl, md, fragment, pendingHash, searchVars, scrollTimers>>

\* the last fetch of the initial load succeeded, the manifest being m: the
\* continuation of Promise.all sets the page up in the same turn
SetupApplication(m) ==
  /\ phase = "loading"
  /\ SetupPage(m)
  /\ UNCHANGED load

\* the user follows a nav link, edits the URL or goes back: the fragment
\* becomes f; an event is queued for the listener if there is one
UserNavigate(f) ==
  /\ f # fragment
  /\ ListenersOn => pendingHash < MaxPendingHash
  /\ fragment' = f
  /\ pendingHash' = IF ListenersOn THEN pendingHash + 1 ELSE pendingHash
  /\ lastOp' = OtherOp
  /\ UNCHANGED <<envVars, dom, pagination, tocTimers, searchVars, scrollTimers>>

\* mutant of HashChange: the listener also drops the content of the first
\* document from the store
HashChangeWritesStore ==
  /\ pendingHash > 0
  /\ impl = "body" => tocTimers < MaxTocTimers
  /\ LET r == RouteToHash(fragment, impl, files, md,
                [dom |-> dom, tocTimers |-> tocTimers, pagination |-> pagination])
     IN  /\ dom' = r.dom
         /\ tocTimers' = r.tocTimers
         /\ pagination' = r.pagination
  /\ pendingHash' = pendingHash - 1
  /\ lastOp' =
       Ended(Op("hashchange", <<SlugFromHash(fragment, files)>>),
             RouteToHash(fragment, impl, files, md,
               [dom |-> dom, tocTimers |-> tocTimers,
                pagination |-> pagination]).threw)
  /\ files' = IF Len(files) > 0 THEN [files EXCEPT ![1].content = <<>>] ELSE files
  /\ UNCHANGED <<impl, phase, md, load, fragment, searchVars, scrollTimers>>

\* the hashchange listener
HashChange ==
  /\ pendingHash > 0
  /\ impl = "body" => tocTimers < MaxTocTimers
  /\ LET r == RouteToHash(fragment, impl, files, md,
                [dom |-> dom, tocTimers |-> tocTimers, pagination |-> pagination])
     IN  /\ dom' = r.dom
         /\ tocTimers' = r.tocTimers
         /\ pagination' = r.pagination
  /\ pendingHash' = pendingHash - 1
  /\ lastOp' =
       Ended(Op("hashchange", <<SlugFromHash(fragment, files)>>),
             RouteToHash(fragment, impl, files, md,
               [dom |-> dom, tocTimers |-> tocTimers,
                pagination |-> pagination]).threw)
  /\ UNCHANGED <<envVars, fragment, searchVars, scrollTimers>>

\* a step that only touches the fragment and the event queue
HashStep(st, op) ==
  /\ st.pendingHash <= MaxPendingHash
  /\ fragment' = st.fragment
  /\ pendingHash' = st.pendingHash
  /\ lastOp' = HashOp(op, <<>>, fragment, st.fragment)
  /\ UNCHANGED <<envVars, dom, pagination, tocTimers, searchVars, scrollTimers>>

HashState == [fragment |-> fragment, pendingHash |-> pendingHash]

\* the user clicks prev-btn
ClickPrev ==
  HashStep(ButtonClick(pagination.prevDisabled, pagination.prevTarget, HashState),
           "clickPrev")

\* the user clicks next-btn
ClickNext ==
  HashStep(ButtonClick(pagination.nextDisabled, pagination.nextTarget, HashState),
           "clickNext")

\* keydown ArrowLeft outside an input
ArrowLeft ==
  /\ ListenersOn
  /\ HashStep(ArrowKey(pagination.prevDisabled, pagination.prevTarget, HashState),
              "arrowLeft")

\* keydown ArrowRight outside an input
ArrowRight ==
  /\ ListenersOn
  /\ HashStep(ArrowKey(pagination.nextDisabled, pagination.nextTarget, HashState),
              "arrowRight")

\* the user scrolls the container
UserScroll ==
  /\ ~dom.scrolled
  /\ dom' = [dom EXCEPT !.scrolled = TRUE]
  /\ lastOp' = OtherOp
  /\ UNCHANGED <<envVars, fragment, pendingHash, pagination, tocTimers,
                 searchVars, scrollTimers>>

\* the timer body.js sets after each loadMarkdown: generateTableOfContents
GenerateTocTimeout ==
  /\ tocTimers > 0
  /\ dom' = GenerateTableOfContents(dom, files)
  /\ tocTimers' = tocTimers - 1
  /\ lastOp' = OtherOp
  /\ UNCHANGED <<envVars, fragment, pendingHash, pagination, searchVars,
                 scrollTimers>>

\* document.getElementById(heading.id) of the k-th entry finds an element
HeadingPresent(d, fs, k) == d.content.ids /\ k <= Len(TocHeadings(d.content, fs))

\* mutant of TocClick: location.hash = '#' + heading.id instead of
\* history.replaceState
TocClickByHash(k) ==
  /\ k \in 1..Len(dom.toc)
  /\ HeadingPresent(dom, files, k)
  /\ \E s \in BOOLEAN : dom' = [dom EXCEPT !.scrolled = s]
  /\ fragment' = <<dom.toc[k].id>>
  /\ pendingHash' = IF fragment' # fragment THEN pendingHash + 1 ELSE pendingHash
  /\ pendingHash' <= MaxPendingHash
  /\ lastOp' = HashOp("tocClick", <<>>, fragment, fragment')
  /\ UNCHANGED <<envVars, pagination, tocTimers, searchVars, scrollTimers>>

\* click on the k-th table-of-contents entry: scroll to its heading and
\* history.replaceState(null, null, '#' + heading.id), which raises no event
TocClick(k) ==
  /\ k \in 1..Len(dom.toc)
  /\ IF HeadingPresent(dom, files, k)
     THEN /\ \E s \in BOOLEAN : dom' = [dom EXCEPT !.scrolled = s]
          /\ fragment' = <<dom.toc[k].id>>
          /\ lastOp' = ReplaceOp("tocClick")
     ELSE /\ UNCHANGED <<dom, fragment>>
          /\ lastOp' = Op("tocClick", <<>>)
  /\ UNCHANGED <<envVars, pendingHash, pagination, tocTimers, searchVars,
                 scrollTimers>>

\* mutant of MarkActive: the other links keep 'active'
MarkActiveKeep(d, k) == [d EXCEPT !.activeToc = @ \cup {d.toc[k].id}]

\* tocLinks.forEach(link => link.classList.remove('active'));
\* tocLink.classList.add('active') for the link of the k-th heading
MarkActive(d, k) == [d EXCEPT !.activeToc = {d.toc[k].id}]

\* the IntersectionObserver callback reports the k-th observed heading as
\* intersecting: every link loses 'active', the heading's link gets it
Intersect(k) ==
  /\ dom.observers > 0 /\ dom.observerLive
  /\ k \in 1..Len(TocHeadings(dom.content, files))
  /\ k <= Len(dom.toc)
  /\ dom' = MarkActive(dom, k)
  /\ lastOp' = OtherOp
  /\ UNCHANGED <<envVars, fragment, pendingHash, pagination, tocTimers,
                 searchVars, scrollTimers>>

(***************************************************************************)
(* Search overlay                                                          *)
(***************************************************************************)
\* showSearchOverlay
ShowSearchOverlay ==
  /\ ListenersOn /\ ~overlayOpen
  /\ overlayOpen' = TRUE
  /\ lastOp' = OtherOp
  /\ UNCHANGED <<envVars, navVars, searchValue, resultsBox, searchTimers,
                 scrollTimers>>

\* hideSearchOverlay: close button, click outside, Ctrl+K, and in docs.js Escape
HideSearchOverlay ==
  /\ ListenersOn
  /\ overlayOpen \/ (impl = "docs" /\ resultsBox # EmptyBox)
  /\ overlayOpen' = FALSE
  /\ searchValue' = <<>>
  /\ resultsBox' = EmptyBox
  /\ lastOp' = OtherOp
  /\ UNCHANGED <<envVars, navVars, searchTimers, scrollTimers>>

\* Escape in body.js: closeElement(searchOverlay, 'active') only
EscapeBody ==
  /\ impl = "body" /\ overlayOpen
  /\ overlayOpen' = FALSE
  /\ lastOp' = OtherOp
  /\ UNCHANGED <<envVars, navVars, searchValue, resultsBox, searchTimers,
                 scrollTimers>>

\* the 'input' listener of search-overlay-input for the value raw
OnSearchInput(raw) ==
  LET query == NormalizeQuery(raw)
  IN  /\ IF impl = "docs"
         THEN LET r == PerformSearchDocs(query, searchTimers)
              IN  /\ Len(r.timers) <= MaxTimers
                  /\ resultsBox' = r.box
                  /\ searchTimers' = r.timers
         ELSE /\ resultsBox' = PerformSearchBody(query, files)
              /\ UNCHANGED searchTimers
      /\ lastOp' = Ended(Op("searchInput", <<>>),
                         /\ impl = "body"
                         /\ Len(query) >= 2
                         /\ DisplayThrows(ScanFiles(files, 1, query, <<>>), query))

\* the user changes the text of the overlay input to raw
TypeQuery(raw) ==
  /\ ListenersOn /\ overlayOpen
  /\ raw # searchValue
  /\ searchValue' = raw
  /\ OnSearchInput(raw)
  /\ UNCHANGED <<envVars, navVars, overlayOpen, scrollTimers>>

\* mutant of SearchTimeout: the display also empties the toc-list
SearchTimeoutClearsToc ==
  /\ searchTimers # <<>>
  /\ resultsBox' = DisplaySearchResults(
                    ScanFiles(files, 1, Head(searchTimers), <<>>),
                    Head(searchTimers), md)
  /\ searchTimers' = Tail(searchTimers)
  /\ dom' = [dom EXCEPT !.toc = <<>>, !.activeToc = NoHeading]
  /\ lastOp' = Ended(Op("searchTimeout", <<>>),
                     DisplayThrows(ScanFiles(files, 1, Head(searchTimers), <<>>),
                                   Head(searchTimers)))
  /\ UNCHANGED <<envVars, fragment, pendingHash, pagination, tocTimers,
                 overlayOpen, searchValue, scrollTimers>>

\* the 100 ms timer of performSearch (docs.js): scan and display
SearchTimeout ==
  /\ searchTimers # <<>>
  /\ resultsBox' = DisplaySearchResults(
                    ScanFiles(files, 1, Head(searchTimers), <<>>),
                    Head(searchTimers), md)
  /\ searchTimers' = Tail(searchTimers)
  /\ lastOp' = Ended(Op("searchTimeout", <<>>),
                     DisplayThrows(ScanFiles(files, 1, Head(searchTimers), <<>>),
                                   Head(searchTimers)))
  /\ UNCHANGED <<envVars, navVars, overlayOpen, searchValue, scrollTimers>>

NavState == [fragment |-> fragment, pendingHash |-> pendingHash, dom |-> dom,
             tocTimers |-> tocTimers, rendered |-> <<>>, threw |-> FALSE]

\* the closure of the 300 ms timer of a result click: result.matchedLines[0]
\* of the result `result`
ScrollTimer(result) ==
  [line |-> result.matchedLines[1].line, index |-> result.matchedLines[1].index,
   slug |-> result.slug]

\* click on the k-th result link
SearchResultClick(k) ==
  /\ overlayOpen
  /\ resultsBox.kind = "results"
  /\ k \in 1..Len(resultsBox.items)
  /\ LET result == resultsBox.items[k]
         st == NavigateToSlug(result.slug, impl, files, md, NavState)
         scrolls == impl = "docs" /\ Len(result.matchedLines) > 0
     IN  /\ st.pendingHash <= MaxPendingHash
         /\ st.tocTimers <= MaxTocTimers
         /\ scrolls => Len(scrollTimers) < MaxTimers
         /\ fragment' = st.fragment
         /\ pendingHash' = st.pendingHash
         /\ dom' = st.dom
         /\ tocTimers' = st.tocTimers
         /\ scrollTimers' = IF scrolls
                            THEN Append(scrollTimers, ScrollTimer(result))
                            ELSE scrollTimers
         /\ lastOp' = Ended(HashOp("resultClick", st.rendered, fragment,
                                   st.fragment),
                            st.threw)
  /\ overlayOpen' = FALSE
  /\ searchValue' = <<>>
  /\ resultsBox' = EmptyBox
  /\ UNCHANGED <<envVars, pagination, searchTimers>>

\* Math.max(0, x)
Max0(x) == IF x > 0 THEN x ELSE 0

\* what the page offers to scrollToSearchResult; the renderer is external,
\* so these are inputs: the number of lines of content.textContent, the
\* offsetTop of the smallest element whose text contains the matched line
\* (-1: no element contains it) and content.scrollHeight
RenderedLineCounts == 1..3
OffsetTops == {-1, 0, 100}
ScrollHeights == {120}

HeaderHeight == 60

\* scrollToSearchResult(matchedLine): the container.scrollTo it asks for
ScrollToSearchResult(matchedLine, lines, offsetTop, scrollHeight) ==
  IF matchedLine.index < lines
  THEN IF offsetTop # -1
       THEN [kind |-> "element", top |-> Max0(offsetTop - HeaderHeight - 20)]
       ELSE [kind |-> "fallback",
             top |-> Max0((matchedLine.index * scrollHeight) \div lines
                            - HeaderHeight)]
  ELSE NoScrollReq

\* the 300 ms timer of a result click: scrollToSearchResult(matchedLine) on
\* the page as it is then.  A content that is one of the messages is one
\* line of text without elements
ScrollTimeout ==
  /\ scrollTimers # <<>>
  /\ \E lines \in RenderedLineCounts, offsetTop \in OffsetTops,
        scrollHeight \in ScrollHeights :
       /\ dom.content.kind # "doc" => lines = 1 /\ offsetTop = -1
       /\ LET req == ScrollToSearchResult(Head(scrollTimers), lines, offsetTop,
                                          scrollHeight)
          IN  /\ dom' = [dom EXCEPT !.scrolled = IF req.kind = "none" THEN @
                                                 ELSE req.top > 0]
              /\ lastOp' = ScrollOp(req)
  /\ scrollTimers' = Tail(scrollTimers)
  /\ UNCHANGED <<envVars, fragment, pendingHash, pagination, tocTimers, searchVars>>

\* the steps of the page whose load ends with one of the manifests ms
NextOn(ms) ==
  \/ InitializeMarkdown
  \/ \E m \in ms : SetupApplication(m)
  \/ \E f \in {<<>>, UnknownSlug} \cup {files[i].slug : i \in 1..Len(files)} :
       UserNavigate(f)
  \/ HashChange
  \/ ClickPrev
  \/ ClickNext
  \/ ArrowLeft
  \/ ArrowRight
  \/ UserScroll
  \/ GenerateTocTimeout
  \/ \E k \in 1..Len(HeadingIds) : TocClick(k)
  \/ \E k \in 1..Len(HeadingIds) : Intersect(k)
  \/ ShowSearchOverlay
  \/ HideSearchOverlay
  \/ EscapeBody
  \/ \E raw \in TypedQueries : TypeQuery(raw)
  \/ SearchTimeout
  \/ \E k \in 1..3 : SearchResultClick(k)
  \/ ScrollTimeout

Next == NextOn(Manifests)

Spec == Init /\ [][Next]_vars

\* the same page on a store with a document whose slug is a heading id and
\* whose headings bring ids of their own
HeadingIdSpec == Init /\ [][NextOn(HeadingIdManifests)]_vars

(***************************************************************************)
(* The initial load in detail: the wait for the renderer, the fetch of the *)
(* manifest and the concurrent fetches of the documents, each of which     *)
(* completes or fails on its own, with what the user can do meanwhile.     *)
(***************************************************************************)
\* file.content of an entry whose fetch has not completed
Undefined == <<"undefined">>

\* the entries of the manifest m before any content is fetched
Unfetched(m) == [i \in 1..Len(m) |-> [m[i] EXCEPT !.content = Undefined]]

\* mutant of LoadOutcome: Promise.allSettled instead of Promise.all
LoadOutcomeSettled(ld) ==
  IF ld.got \cup ld.failed = 1..Len(ld.manifest) THEN "resolved"
  ELSE "pending"

\* Promise.all(contentPromises): rejected by the first failure, resolved
\* when every fetch has succeeded
LoadOutcome(ld) ==
  IF ld.failed # {} THEN "rejected"
  ELSE IF ld.got = 1..Len(ld.manifest) THEN "resolved"
  ELSE "pending"

\* docs.js starts with waitForMarkdownIt when md is missing, body.js and
\* docs.js with md start with the fetch of docs.json
BootInit ==
  /\ InitAt({"waitmd", "manifest"}, InitialFragments)
  /\ phase = "waitmd" <=> (impl = "docs" /\ ~md)

\* a tick of the setInterval(..., 100) of waitForMarkdownIt that sees md:
\* the promise resolves and init goes on to loadSpecifications
PollMarkdownIt ==
  /\ phase = "waitmd" /\ md
  /\ phase' = "manifest"
  /\ lastOp' = OtherOp
  /\ UNCHANGED <<impl, md, files, load, navVars, searchVars, scrollTimers>>

\* mutant of WaitTimeout: the timer stops the polling and does not resolve
WaitTimeoutSilent ==
  /\ phase = "waitmd"
  /\ UNCHANGED vars

\* the setTimeout(..., 10000) of waitForMarkdownIt: resolve() whatever md
\* is.  When a poll has resolved before, the timer changes nothing
WaitTimeout ==
  /\ phase = "waitmd"
  /\ phase' = "manifest"
  /\ lastOp' = OtherOp
  /\ UNCHANGED <<impl, md, files, load, navVars, searchVars, scrollTimers>>

\* the fetch of docs.json succeeds with manifest m: the document fetches
\* are issued; docs.js stores the entries, still without content, in
\* `files` at once.  Promise.all of an empty manifest resolves in the same
\* turn and the page is set up
ManifestOk(m) ==
  /\ phase = "manifest"
  /\ load' = [manifest |-> m, got |-> {}, failed |-> {}]
  /\ IF Len(m) = 0
     THEN SetupPage(m)
     ELSE /\ phase' = "loading"
          /\ files' = IF impl = "docs" THEN AddSlugs(Unfetched(m)) ELSE files
          /\ lastOp' = OtherOp
          /\ UNCHANGED <<impl, md, navVars, searchVars, scrollTimers>>

\* the fetch of docs.json fails (network error or status not ok): docs.js
\* replaces the page by showError, body.js writes into the content
ManifestFail ==
  /\ phase = "manifest"
  /\ IF impl = "docs"
     THEN /\ phase' = "error"
          /\ dom' = [InitialDom EXCEPT !.content = InitErrorContent]
     ELSE /\ phase' = "failed"
          /\ dom' = WriteContent(dom, ListFailedContent)
  /\ lastOp' = OtherOp
  /\ UNCHANGED <<impl, md, files, load, fragment, pendingHash, pagination,
                 tocTimers, searchVars, scrollTimers>>

\* the documents whose fetch is still in flight
InFlight == (1..Len(load.manifest)) \ (load.got \cup load.failed)

\* the fetch of the i-th document succeeds: file.content = text; when it
\* was the last one, Promise.all resolves and the page is set up
DocFetchOk(i) ==
  /\ phase \in {"loading", "failed"}
  /\ i \in InFlight
  /\ load' = [load EXCEPT !.got = @ \cup {i}]
  /\ IF phase = "loading" /\ LoadOutcome(load') = "resolved"
     THEN SetupPage(load.manifest)
     ELSE /\ files' = IF impl = "docs"
                      THEN [files EXCEPT
                              ![i].content = load.manifest[i].content]
                      ELSE files
          /\ lastOp' = OtherOp
          /\ UNCHANGED <<impl, phase, md, navVars, searchVars, scrollTimers>>

\* the fetch of the i-th document fails: the first failure rejects
\* Promise.all; docs.js logs the error in the catch of initializeApp,
\* body.js writes 'Failed to load documentation list.' into the content
DocFetchFail(i) ==
  /\ phase \in {"loading", "failed"}
  /\ i \in InFlight
  /\ load' = [load EXCEPT !.failed = @ \cup {i}]
  /\ IF phase = "loading" /\ LoadOutcome(load') = "rejected"
     THEN /\ phase' = "failed"
          /\ dom' = IF impl = "body"
                    THEN WriteContent(dom, ListFailedContent)
                    ELSE dom
     ELSE UNCHANGED <<phase, dom>>
  /\ lastOp' = OtherOp
  /\ UNCHANGED <<impl, md, files, fragment, pendingHash, pagination,
                 tocTimers, searchVars, scrollTimers>>

\* while the page is not set up
Booting == phase # "ready"

\* the steps of the load, and what the user and the timers can do while
\* the page is not set up
BootNext ==
  \/ PollMarkdownIt
  \/ WaitTimeout
  \/ \E m \in Manifests : ManifestOk(m)
  \/ ManifestFail
  \/ \E i \in 1..3 : DocFetchOk(i)
  \/ \E i \in 1..3 : DocFetchFail(i)
  \/ Booting /\ InitializeMarkdown
  \/ Booting /\ \E f \in {<<>>, UnknownSlug, <<"a", "a">>} : UserNavigate(f)
  \/ Booting /\ HashChange
  \/ Booting /\ GenerateTocTimeout
  \/ Booting /\ ShowSearchOverlay
  \/ Booting /\ \E raw \in TypedQueries : TypeQuery(raw)

BootSpec == BootInit /\ [][BootNext]_vars

\* timers fire: the 10 s timer of waitForMarkdownIt is not starved
BootLiveSpec == BootSpec /\ WF_vars(WaitTimeout)

(***************************************************************************)
(* The navigation alone: the page is set up on any manifest of up to       *)
(* MaxNavDocs documents.                                                   *)
(***************************************************************************)
\* fragments the page is opened with when the navigation is checked
NavFragments == InitialFragments \cup { <<"a", "-", "b">> }

NavInit == InitAt({"loading"}, NavFragments)

NavNext == \E m \in NavManifests : SetupApplication(m)

NavSpec == NavInit /\ [][NavNext]_vars

(***************************************************************************)
(* The search alone: the application is set up on any manifest, the        *)
(* overlay is open and holds a typed text; the input listener and the      *)
(* timer then run.                                                         *)
(***************************************************************************)
\* the search alone on a store of ms with a typed text of qs
SearchInitOn(ms, qs) ==
  /\ impl \in {"docs", "body"}
  /\ phase = "ready"
  /\ md = TRUE
  /\ files \in { AddSlugs(m) : m \in ms }
  /\ load = NoLoad
  /\ fragment = <<>>
  /\ pendingHash = 0
  /\ LET r == RouteToHash(<<>>, "docs", files, TRUE,
                [dom |-> InitialDom, tocTimers |-> 0,
                 pagination |-> InitialPagination])
     IN  dom = r.dom /\ pagination = r.pagination
  /\ tocTimers = 0
  /\ overlayOpen = TRUE
  /\ searchValue \in qs
  /\ resultsBox = EmptyBox
  /\ searchTimers = <<>>
  /\ scrollTimers = <<>>
  /\ lastOp = Op("init", <<>>)

SearchInit == SearchInitOn(SearchManifests, AllQueries)

\* the 'input' event for the typed text
SearchInputEvent ==
  /\ overlayOpen
  /\ OnSearchInput(searchValue)
  /\ UNCHANGED <<envVars, navVars, overlayOpen, searchValue, scrollTimers>>

SearchNext == SearchInputEvent \/ SearchTimeout

SearchSpec == SearchInit /\ [][SearchNext]_vars

\* the search on texts with characters that are special in a RegExp
HighlightInit == SearchInitOn(HighlightManifests, HighlightQueries)

HighlightSpec == HighlightInit /\ [][SearchNext]_vars

\* the oldest 100 ms timer of performSearch leaves the timer queue: the step
\* of SearchTimeout on searchTimers
SearchTimerFires ==
  /\ searchTimers # <<>>
  /\ searchTimers' = Tail(searchTimers)

\* timers fire: the 100 ms timer of performSearch is not starved
HighlightLiveSpec == HighlightSpec /\ WF_searchTimers(SearchTimerFires)

(***************************************************************************)
(* Properties of the search (checked under SearchSpec)                     *)
(***************************************************************************)
\* the normalized form of the typed text
TypedQuery == NormalizeQuery(searchValue)

\* the input listener has run for the typed text
InputHandled == lastOp.op \in {"searchInput", "searchTimeout"}

\* the scan has run and its outcome is displayed
Scanned == InputHandled /\ resultsBox.kind \in {"results", "noresults"}

\* the whitespace-delimited terms of q: its maximal runs without whitespace
Terms(q) ==
  { SubSeq(q, i, j) : <<i, j>> \in
      { p \in (1..Len(q)) \X (1..Len(q)) :
          /\ p[1] <= p[2]
          /\ \A n \in p[1]..p[2] : ~IsSpace(q[n])
          /\ (p[1] = 1 \/ IsSpace(q[p[1] - 1]))
          /\ (p[2] = Len(q) \/ IsSpace(q[p[2] + 1])) } }

\* every term of q is a substring of the lowercased line
HasAllTerms(line, q) == \A t \in Terms(q) : Includes(ToLowerCase(line), t)

\* the JavaScript indices of the lines of doc that carry every term of q
MatchingLineIndices(doc, q) ==
  LET lines == SplitOn(doc.content, NL)
  IN  { j \in 0..(Len(lines) - 1) : HasAllTerms(lines[j + 1], q) }

\* the displayed result entries that stand for the i-th document
ItemsOf(i) ==
  { k \in 1..Len(resultsBox.items) :
      /\ resultsBox.items[k].title = files[i].name
      /\ resultsBox.items[k].slug = files[i].slug }

\* C1: a typed text whose normalized form has fewer than 2 characters yields
\* the "Type at least 2 characters" hint, never the no-results marker or a
\* result list; a longer one never yields the hint; the two markers differ.
C1_TooShortYieldsHint ==
  InputHandled =>
    /\ Len(TypedQuery) < 2 => resultsBox = HintBox
    /\ Len(TypedQuery) >= 2 => resultsBox.kind # "hint"
    /\ HintBox # DisplaySearchResults(<<>>, TypedQuery, md)

\* C2: after the scan for a query of length >= 2, a document is among the
\* results iff its lowercased title contains the whole query or one of its
\* lines contains every term of the query; titleMatch tells the former.
C2_AppearsIffMatches ==
  Scanned =>
    \A i \in 1..Len(files) :
      /\ ItemsOf(i) # {} <=>
           \/ Includes(ToLowerCase(files[i].name), TypedQuery)
           \/ MatchingLineIndices(files[i], TypedQuery) # {}
      /\ \A k \in ItemsOf(i) :
           resultsBox.items[k].titleMatch =
             Includes(ToLowerCase(files[i].name), TypedQuery)

\* C2 witness: a query of two terms was scanned; one document is left out
\* although each term occurs somewhere in its content, another is listed for
\* a line only, another for its title only
C2_Witness ==
  /\ Scanned
  /\ Len(TypedQuery) >= 2
  /\ Cardinality(Terms(TypedQuery)) = 2
  /\ \E i \in 1..Len(files) :
       /\ ItemsOf(i) = {}
       /\ \A t \in Terms(TypedQuery) : Includes(ToLowerCase(files[i].content), t)
  /\ \E k \in 1..Len(resultsBox.items) :
       ~resultsBox.items[k].titleMatch /\ Len(resultsBox.items[k].matchedLines) > 0

\* matchedLines of entry k lists exactly the matching lines of document i, in
\* line order, each with its index and the line's text (trimmed or as it is)
ExactLines(k, i, trimmed) ==
  LET ml == resultsBox.items[k].matchedLines
      lines == SplitOn(files[i].content, NL)
      want == MatchingLineIndices(files[i], TypedQuery)
  IN  /\ Len(ml) = Cardinality(want)
      /\ \A n \in 1..Len(ml) :
           /\ ml[n].index \in want
           /\ ml[n].line = IF trimmed THEN Trim(lines[ml[n].index + 1])
                                     ELSE lines[ml[n].index + 1]
      /\ \A n \in 1..Len(ml), o \in 1..Len(ml) :
           n < o => ml[n].index < ml[o].index

\* C3 as stated: matchedLines is exactly the sequence of the content lines
\* that carry every term, each with its original index, in line order,
\* duplicates kept.
C3_MatchedLinesAreContentLines ==
  Scanned =>
    \A i \in 1..Len(files) : \A k \in ItemsOf(i) : ExactLines(k, i, FALSE)

\* C3 amended: the same, except that each entry holds the line's text with
\* leading and trailing whitespace removed.
C3_MatchedLinesAreTrimmedLines ==
  Scanned =>
    \A i \in 1..Len(files) : \A k \in ItemsOf(i) : ExactLines(k, i, TRUE)

\* C3 witness: an entry lists the same text twice, and holds a text that
\* differs from its content line by surrounding blanks
C3_Witness ==
  /\ Scanned
  /\ \E i \in 1..Len(files) : \E k \in ItemsOf(i) :
       LET ml == resultsBox.items[k].matchedLines
           lines == SplitOn(files[i].content, NL)
       IN  /\ \E n \in 1..Len(ml), o \in 1..Len(ml) :
                n # o /\ ml[n].line = ml[o].line
           /\ \E n \in 1..Len(ml) : ml[n].line # lines[ml[n].index + 1]

\* C4: the result list holds at most one entry per document and lists the
\* matching documents in manifest order.
C4_ManifestOrder ==
  Scanned =>
    \E f \in [1..Len(resultsBox.items) -> 1..Len(files)] :
      /\ \A k \in 1..Len(resultsBox.items) : k \in ItemsOf(f[k])
      /\ \A k \in 1..Len(resultsBox.items), n \in 1..Len(resultsBox.items) :
           k < n => f[k] < f[n]

\* C4 witness: three documents are listed, the first for its title only
C4_Witness ==
  /\ Scanned
  /\ Len(resultsBox.items) = 3
  /\ resultsBox.items[1].titleMatch
  /\ ~resultsBox.items[3].titleMatch

(***************************************************************************)
(* Routing and pagination, under Spec.                                     *)
(***************************************************************************)
\* the slug the routing handlers read from the fragment, and its index
ActiveSlug == SlugFromHash(fragment, files)

ActiveIndex == FindIndex(files, ActiveSlug)

\* the renderer is loaded and does not fail on the document of JS index idx
Renders(idx) == md /\ ~files[idx + 1].throws

\* the step ran loadMarkdown and updatePagination for the fragment
Routed == lastOp.op \in {"setup", "hashchange"}

\* ... and reached updatePagination (body.js does not when md.render throws)
Paginated ==
  /\ Routed
  /\ Len(files) > 0
  /\ ~(impl = "body" /\ ActiveIndex # -1 /\ files[ActiveIndex + 1].throws)

\* the page d shows the document of JS index idx, scrolled to the top
Shows(d, idx) ==
  /\ d.content.kind = "doc"
  /\ d.content.idx = idx
  /\ ~d.scrolled
  /\ d.activeLink = files[idx + 1].slug

ShowsDocument(idx) == Shows(dom, idx)

\* C5: activating a slug (navigateToSlug, run by a click on a search
\* result) sets the fragment to the slug when it differs, which queues a
\* fragment-change event and renders nothing by itself; when the fragment
\* already is the slug it passes the slug to loadMarkdown directly, so a
\* second activation of the same slug refreshes the content pane.  Every
\* handled fragment-change event passes the fragment's slug to loadMarkdown.
C5_ActivateSlug ==
  [][ /\ lastOp'.op = "resultClick" =>
           \E k \in 1..Len(resultsBox.items) :
             LET slug == resultsBox.items[k].slug
                 idx == FindIndex(files, slug)
             IN  /\ fragment' = slug
                 /\ IF LocationHash(fragment) # <<"#">> \o slug
                    THEN /\ pendingHash' = pendingHash + 1
                         /\ lastOp'.rendered = <<>>
                         /\ dom' = dom
                    ELSE /\ pendingHash' = pendingHash
                         /\ lastOp'.rendered = <<slug>>
                         /\ Renders(idx) => Shows(dom', idx)
                         /\ (impl = "docs" /\ ~Renders(idx)) =>
                              dom'.content \in {NoMdContent, RenderErrorContent}
      /\ lastOp'.op = "hashchange" =>
           /\ pendingHash' = pendingHash - 1
           /\ lastOp'.rendered = <<ActiveSlug>>
           /\ (ActiveIndex # -1 /\ Renders(ActiveIndex)) =>
                Shows(dom', ActiveIndex)
    ]_vars

\* C5 witness: a result was clicked while the fragment already named its
\* document, the reader having scrolled; the document is shown from the top
C5_Witness ==
  /\ lastOp.op = "resultClick"
  /\ lastOp.rendered = <<fragment>>
  /\ dom.content.kind = "doc"
  /\ ~dom.scrolled

\* C6: after every pagination update on a non-empty store, the previous
\* control is enabled exactly when the active index is above 0, and the
\* next control exactly when the index is valid and below the last index.
C6_PaginationEnabled ==
  Paginated =>
    /\ ~pagination.prevDisabled <=> ActiveIndex > 0
    /\ ~pagination.nextDisabled <=>
         (ActiveIndex # -1 /\ ActiveIndex < Len(files) - 1)

\* C6 witness: a document in the middle of the manifest, both controls enabled
C6_Witness ==
  /\ Paginated
  /\ ActiveIndex > 0 /\ ActiveIndex < Len(files) - 1
  /\ ~pagination.prevDisabled /\ ~pagination.nextDisabled

\* C7 as stated: the previous control is disabled exactly when the active
\* index is 0, for every index a pagination update can see, -1 included.
C7_PrevDisabledIffFirst ==
  Paginated => (pagination.prevDisabled <=> ActiveIndex = 0)

\* C7: the previous control is disabled exactly when the active index is
\* 0 or -1 (the slug names no document), that is when it is not above 0.
C7_PrevDisabledIffNotAboveFirst ==
  Paginated => (pagination.prevDisabled <=> ActiveIndex \in {-1, 0})

\* C7 witness: the fragment names no document and the previous control is
\* disabled
C7_Witness ==
  /\ Paginated
  /\ ActiveIndex = -1
  /\ pagination.prevDisabled

\* C8: a click on a disabled pagination control, or its arrow key while
\* the control is disabled, changes nothing: no navigation, no rendering.
C8_DisabledIsNoOp ==
  [][ (\/ /\ lastOp'.op \in {"clickPrev", "arrowLeft"}
          /\ pagination.prevDisabled
       \/ /\ lastOp'.op \in {"clickNext", "arrowRight"}
          /\ pagination.nextDisabled)
      => UNCHANGED <<envVars, navVars, searchVars, scrollTimers>>
    ]_vars

\* C8 witness: the next control was used while disabled although it holds
\* a target (the fragment names no document), and nothing was queued
C8_Witness ==
  /\ lastOp.op \in {"clickNext", "arrowRight"}
  /\ pagination.nextDisabled
  /\ pagination.nextTarget # <<>>
  /\ pendingHash = 0

\* C9 as stated: after the initial load and after every fragment change on
\* a non-empty store, a fragment that is empty or names no document makes
\* the first document the rendered one (the renderer working), no error.
C9_FallbackToFirst ==
  (/\ Routed
   /\ Len(files) > 0
   /\ fragment = <<>> \/ FindIndex(files, fragment) = -1
   /\ Renders(0))
  => ShowsDocument(0)

\* C9: after the initial load and after every fragment change on a
\* non-empty store, an empty fragment makes the first document the rendered
\* one (the renderer working); a non-empty fragment that names no document
\* is kept as the active slug and the failure message is shown instead.
C9_FallbackOnEmptyOnly ==
  (Routed /\ Len(files) > 0) =>
    /\ fragment = <<>> =>
         /\ lastOp.rendered = <<files[1].slug>>
         /\ Renders(0) => ShowsDocument(0)
    /\ (fragment # <<>> /\ FindIndex(files, fragment) = -1) =>
         /\ lastOp.rendered = <<fragment>>
         /\ dom.content = NotFoundContent

\* C9 witness: a fragment change to the empty fragment shows the first
\* of three documents
C9_Witness ==
  /\ lastOp.op = "hashchange"
  /\ fragment = <<>>
  /\ Len(files) = 3
  /\ ShowsDocument(0)

\* C10: routing to a slug that names no document shows the failure message,
\* leaves the fragment as it is and queues no navigation; a later fragment
\* change to a known slug shows that document (the renderer working).
C10_UnknownSlugFails ==
  [][ /\ (lastOp'.op \in {"setup", "hashchange"}
          /\ FindIndex(files', SlugFromHash(fragment, files')) = -1) =>
           /\ dom'.content = NotFoundContent
           /\ fragment' = fragment
           /\ pendingHash' <= pendingHash
      /\ (lastOp'.op = "hashchange"
          /\ dom.content = NotFoundContent
          /\ ActiveIndex # -1 /\ Renders(ActiveIndex)) =>
           Shows(dom', ActiveIndex)
    ]_vars

\* C10 witness: the failure message is shown for the unknown fragment, which
\* is still in place, on a non-empty store
C10_Witness ==
  /\ lastOp.op = "hashchange"
  /\ Len(files) > 0
  /\ fragment = UnknownSlug
  /\ dom.content = NotFoundContent
  /\ pendingHash = 0

\* C11: in every state in which a document is shown in the content pane
\* and no fragment-change event waits to be handled, the URL fragment is
\* that document's slug.
C11_FragmentIsRenderedSlug ==
  (dom.content.kind = "doc" /\ pendingHash = 0) =>
    fragment = files[dom.content.idx + 1].slug

(***************************************************************************)
(* Table of contents, under Spec.                                          *)
(***************************************************************************)
\* the table of contents was rebuilt after the content was last written:
\* docs.js rebuilds in loadMarkdown, body.js in the timer that follows it
TocRebuilt ==
  /\ dom.content.kind = "doc"
  /\ impl = "body" => tocTimers = 0

\* the ranks 2..6 among the headings of the rendered document, in order
RenderedRanks ==
  SelectSeq(files[dom.content.idx + 1].headings, LAMBDA r : r \in 2..6)

\* C15: at most one intersection observer is ever connected, and after a
\* rebuild of the table of contents on a document with headings of rank
\* 2..6 exactly one is, and it observes the headings now on the page.
C15_OneObserver ==
  /\ dom.observers <= 1
  /\ (TocRebuilt /\ Len(RenderedRanks) > 0) =>
       (dom.observers = 1 /\ dom.observerLive)

\* C15 witness: a document with headings was rendered again by a click on
\* its search result (docs.js rebuilds in the same step), one observer
C15_Witness ==
  /\ impl = "docs"
  /\ lastOp.op = "resultClick" /\ lastOp.rendered # <<>>
  /\ TocRebuilt /\ Len(RenderedRanks) > 0
  /\ dom.observers = 1

\* C16: after a rebuild the table of contents has one entry per heading of
\* rank 2..6 of the rendered document, in document order, none for rank 1;
\* the panel is hidden iff there is no such heading and shown otherwise.
C16_TocEntries ==
  TocRebuilt =>
    /\ Len(dom.toc) = Len(RenderedRanks)
    /\ \A k \in 1..Len(dom.toc) : dom.toc[k].level = RenderedRanks[k]
    /\ dom.tocDisplay = "none" <=> Len(RenderedRanks) = 0
    /\ dom.tocDisplay = "block" <=> Len(RenderedRanks) > 0

\* C16 witness: h1 h2 h3 gives the two entries of rank 2 and 3
C16_Witness ==
  /\ TocRebuilt
  /\ files[dom.content.idx + 1].headings = <<1, 2, 3>>
  /\ Len(dom.toc) = 2
  /\ dom.tocDisplay = "block"

\* C17: at most one entry of the table of contents is active at any time,
\* and whenever the set of active entries changes it becomes empty (the
\* list was rebuilt) or exactly the entry of a heading that is on the page
\* and observed, the heading reported as intersecting.
C17_OneActiveEntry ==
  [][ /\ Cardinality(dom'.activeToc) <= 1
      /\ dom'.activeToc # dom.activeToc =>
           \/ /\ dom'.activeToc = {}
              /\ \/ impl = "docs" /\ lastOp'.rendered # <<>>
                 \/ impl = "body" /\ tocTimers' < tocTimers
           \/ \E k \in 1..Len(dom.toc) :
                /\ dom.observerLive /\ HeadingPresent(dom, files, k)
                /\ dom'.activeToc = {dom.toc[k].id}
                /\ dom'.toc = dom.toc
    ]_vars

\* C17 witness: the second entry is active, the first is not
C17_Witness ==
  /\ Len(dom.toc) = 2
  /\ dom.activeToc = {dom.toc[2].id}

(***************************************************************************)
(* Navigation list, under NavSpec.                                         *)
(***************************************************************************)
\* the sections of #nav that list the document of JS index i, with the
\* position of its link in the section
NavPlaces(i) ==
  { <<k, j>> \in (1..Len(dom.nav)) \X (1..Len(files)) :
      j <= Len(dom.nav[k].links) /\ dom.nav[k].links[j] = i }

\* the position in the manifest of the first document of section k
FirstOf(k) == dom.nav[k].links[1]

\* C18: once set-up has run on a manifest, every document is listed in
\* exactly one section, the one of its label ('General' without a label);
\* sections are in first-seen order and each lists its documents in
\* manifest order.
C18_SectionGrouping ==
  (phase \in {"ready", "failed"} /\ Len(files) > 0) =>
    /\ \A i \in 0..(Len(files) - 1) :
         /\ Cardinality(NavPlaces(i)) = 1
         /\ \A pl \in NavPlaces(i) :
              dom.nav[pl[1]].label =
                IF files[i + 1].section = "" THEN "General"
                ELSE files[i + 1].section
    /\ \A k \in 1..Len(dom.nav) :
         /\ Len(dom.nav[k].links) > 0
         /\ \A j \in 1..(Len(dom.nav[k].links) - 1) :
              dom.nav[k].links[j] < dom.nav[k].links[j + 1]
         /\ \A o \in 1..Len(dom.nav) :
              /\ k < o => FirstOf(k) < FirstOf(o)
              /\ k # o => dom.nav[k].label # dom.nav[o].label

\* the claim of C18 on the manifests without the label 'constructor'
NavGroupingOfPlainLabels ==
  (\A i \in 1..Len(files) : files[i].section # "constructor")
    => C18_SectionGrouping

(***************************************************************************)
(* Slugs, under NavSpec.                                                   *)
(***************************************************************************)
\* set-up has routed to the slug of the title of the i-th document: the
\* page was opened with slugify(title) as its fragment
RoutedToTitle(i) ==
  /\ lastOp.op = "setup"
  /\ fragment # <<>>
  /\ fragment = Slugify(files[i].name)
  /\ lastOp.rendered = <<fragment>>

\* the document found for the slug is the one with the title of the i-th
FoundTitle(i) ==
  /\ dom.content.kind \in {"doc", "nomd"}
  /\ md => /\ dom.content.kind = "doc"
           /\ files[dom.content.idx + 1].name = files[i].name

TitlesDistinct ==
  \A i \in 1..Len(files), j \in 1..Len(files) :
    i # j => files[i].name # files[j].name

SlugsDistinct ==
  \A i \in 1..Len(files), j \in 1..Len(files) :
    i # j => files[i].slug # files[j].slug

\* C19 as stated: in a store whose titles are pairwise distinct, looking up
\* slugify(title) finds the document with that title.
C19_RoundTripOnDistinctTitles ==
  TitlesDistinct =>
    \A i \in 1..Len(files) : RoutedToTitle(i) => FoundTitle(i)

\* C19: in a store whose slugs are pairwise distinct, looking up
\* slugify(title) finds the document with that title.
C19_RoundTripOnDistinctSlugs ==
  SlugsDistinct =>
    \A i \in 1..Len(files) : RoutedToTitle(i) => FoundTitle(i)

\* C19 witness: the title "A  b" of the second of two documents was looked
\* up by its slug a-b and its document is shown
C19_Witness ==
  /\ SlugsDistinct
  /\ Len(files) >= 2
  /\ files[2].name = <<"A", " ", " ", "b">>
  /\ RoutedToTitle(2)
  /\ dom.content.kind = "doc" /\ dom.content.idx = 1

(***************************************************************************)
(* The initial load, under BootSpec.                                       *)
(***************************************************************************)
\* a document is rendered, listed in the navigation or listed by the search
DocumentVisible ==
  \/ dom.content.kind = "doc"
  \/ dom.nav # <<>>
  \/ resultsBox.items # <<>>

\* the manifest was received and every document of it was fetched
AllFetched ==
  /\ phase \notin {"waitmd", "manifest", "error"}
  /\ load.got = 1..Len(load.manifest)
  /\ load.failed = {}

\* C12: a document is rendered, listed in the navigation or returned by
\* the search only if the manifest fetch and every document fetch have
\* succeeded, whatever the order of the completions; once a fetch has
\* failed the page is never set up.
C12_AllOrNothing ==
  /\ DocumentVisible => AllFetched
  /\ phase = "ready" => AllFetched
  /\ (load.failed # {} \/ phase = "error") => ~DocumentVisible

\* C12 witness: in body.js one fetch has failed after another succeeded,
\* and a search typed since then lists nothing
C12_Witness ==
  /\ impl = "body"
  /\ load.failed # {} /\ load.got # {}
  /\ resultsBox.kind = "noresults"
  /\ ~DocumentVisible

\* the step in which the load fails: the manifest fetch fails, or the first
\* document fetch fails
LoadFails ==
  /\ phase \in {"manifest", "loading"}
  /\ phase' \in {"failed", "error"}

\* C13: the step in which the manifest fetch or a document fetch fails
\* replaces the content area by a failure message, and no fetch is issued
\* again afterwards.
C13_FailureShown ==
  [][ /\ LoadFails => dom'.content \in {ListFailedContent, InitErrorContent}
      /\ phase \in {"failed", "error"} =>
           /\ phase' = phase
           /\ load'.manifest = load.manifest
           /\ load.got \subseteq load'.got
           /\ load.failed \subseteq load'.failed
    ]_vars

(***************************************************************************)
(* Order of render and table-of-contents rebuild, under Spec.              *)
(***************************************************************************)
\* a step of setup, of the hashchange listener or of a result click that
\* writes a rendered document into the content
RenderStep ==
  /\ lastOp'.op \in {"setup", "hashchange", "resultClick"}
  /\ lastOp'.rendered # <<>>
  /\ dom'.content.kind = "doc"

\* the table of contents of the page d lists the headings of rank 2..6 of
\* its content, a document of fs
TocMatches(d, fs) ==
  /\ Len(d.toc) = Len(TocHeadings(d.content, fs))
  /\ \A k \in 1..Len(d.toc) : d.toc[k].level = TocHeadings(d.content, fs)[k]

\* a step of the 300 ms timer of a result click
ScrollStep == Len(scrollTimers') < Len(scrollTimers)

\* C14: a render is followed by its table-of-contents rebuild before
\* anything of another render: a render starts only when the rebuild of
\* every earlier render has run, docs.js rebuilds in the step of the
\* render, body.js schedules the rebuild, and the scroll to the match runs
\* only when no rebuild is outstanding.
C14_RenderThenToc ==
  [][ /\ RenderStep =>
           /\ tocTimers = 0
           /\ impl = "docs" => TocMatches(dom', files')
           /\ impl = "body" => tocTimers' = 1
      /\ ScrollStep => tocTimers = 0
    ]_vars

(***************************************************************************)
(* The wait for markdown-it, under BootLiveSpec.                           *)
(***************************************************************************)
\* the page was set up without the renderer and the fragment names a
\* document of the store
DegradedRender ==
  /\ impl = "docs" /\ ~md
  /\ phase = "ready"
  /\ FindIndex(files, SlugFromHash(fragment, files)) # -1

\* C20: the wait for markdown-it always ends: a poll that sees md or the
\* timeout resolves it, and from the wait the initialization goes on to
\* the fetch of docs.json and nowhere else; a page set up without md
\* shows 'Error: markdown-it library not loaded' for the document it is
\* asked to render.
C20_WaitTerminates ==
  /\ (phase = "waitmd") ~> (phase = "manifest")
  /\ [][phase = "waitmd" /\ phase' # phase => phase' = "manifest"]_vars
  /\ [](DegradedRender => dom.content = NoMdContent)

\* C20 witness: md never arrived, the timeout ended the wait, the load
\* succeeded and the first render shows the error text
C20_Witness ==
  /\ DegradedRender
  /\ Len(load.manifest) > 0
  /\ dom.content = NoMdContent
  /\ dom.nav # <<>>

(***************************************************************************)
(* Renderer failure, under Spec.                                           *)
(***************************************************************************)
\* the fragment frag names a document of fs on which md.render throws
ThrowsAt(fs, frag) ==
  /\ FindIndex(fs, SlugFromHash(frag, fs)) # -1
  /\ fs[FindIndex(fs, SlugFromHash(frag, fs)) + 1].throws

\* the step routes to the fragment: setup or the hashchange listener
RouteStep == lastOp'.op \in {"setup", "hashchange"}

\* C21: when md.render throws on the document the fragment names, the
\* routing step shows the rendering-failure message and still updates the
\* pagination for the slug; and a later fragment change to a document the
\* renderer accepts renders that document.
C21_RenderErrorCaught ==
  [][ /\ (RouteStep /\ md /\ ThrowsAt(files', fragment)) =>
           /\ dom'.content = RenderErrorContent
           /\ pagination' =
                UpdatePagination(SlugFromHash(fragment, files'), files',
                                 pagination)
      /\ (lastOp'.op = "hashchange" /\ Routed /\ md
            /\ ThrowsAt(files, lastOp.rendered[1])
            /\ ActiveIndex # -1 /\ Renders(ActiveIndex)) =>
           Shows(dom', ActiveIndex)
    ]_vars

(***************************************************************************)
(* The search leaves the navigation alone, under Spec.                     *)
(***************************************************************************)
\* the step is the input listener of the search or its delayed scan
SearchStep == lastOp'.op \in {"searchInput", "searchTimeout"}

\* C22: a search step (the input listener with performSearch, and the
\* delayed scan with the display of its results) leaves the fragment, the
\* pending fragment events, the page (rendered document, table of
\* contents, active entry, observer), the pagination, the pending
\* table-of-contents rebuilds and the store unchanged.
C22_SearchHasNoSideEffects ==
  [][SearchStep =>
       UNCHANGED <<fragment, pendingHash, dom, pagination, tocTimers, files>>
    ]_vars

\* C22 witness: the scan has displayed results over a rendered document
\* that has a table of contents with an active entry
C22_Witness ==
  /\ lastOp.op = "searchTimeout"
  /\ resultsBox.kind = "results"
  /\ dom.content.kind = "doc"
  /\ dom.toc # <<>>
  /\ dom.activeToc # NoHeading
  /\ dom.observers = 1

(***************************************************************************)
(* Scroll to the match, under Spec.                                        *)
(***************************************************************************)
\* the scroll of a matched line of JS index idx on a page whose text has
\* `lines` lines: to the element that contains the line when there is
\* one (offsetTop # -1), else to the approximate offset; never below 0
ScrollsToMatch(req, idx, lines, offsetTop, scrollHeight) ==
  /\ req.top >= 0
  /\ IF offsetTop # -1
     THEN req = [kind |-> "element", top |-> Max0(offsetTop - HeaderHeight - 20)]
     ELSE req = [kind |-> "fallback",
                 top |-> Max0((idx * scrollHeight) \div lines - HeaderHeight)]

\* C23: when the 300 ms timer of a result click runs on a rendered
\* document, every fragment change handled, scrollToSearchResult asks the container to scroll either to
\* the element that contains the matched line or, without such an
\* element, to the approximate offset (index / lines) * height, clamped
\* at 0: for the rendered page there is, it always asks for one of the two.
C23_ScrollsOrFallsBack ==
  [][ (lastOp'.op = "scrollTimeout" /\ dom.content.kind = "doc"
         /\ pendingHash = 0) =>
        \E lines \in RenderedLineCounts, offsetTop \in OffsetTops,
           scrollHeight \in ScrollHeights :
          ScrollsToMatch(lastOp'.scroll, Head(scrollTimers).index, lines,
                         offsetTop, scrollHeight)
    ]_vars

(***************************************************************************)
(* Highlighting, under HighlightSpec.                                      *)
(***************************************************************************)
\* the scan for a query of length >= 2 has run and displayed its outcome
Displayed ==
  /\ InputHandled
  /\ Len(TypedQuery) >= 2
  /\ impl = "docs" => lastOp.op = "searchTimeout"

\* the term occurs in the text at position p (1-based), whatever the case
OccursAt(term, text, p) ==
  /\ p + Len(term) - 1 <= Len(text)
  /\ \A i \in 1..Len(term) : LowerChar(term[i]) = LowerChar(text[p + i - 1])

\* the occurrences of the terms of q in the text, as <<first, last>>
Occurrences(text, q) ==
  { <<p, p + Len(t) - 1>> : <<p, t>> \in
      { x \in (1..Len(text)) \X Terms(q) : OccursAt(x[2], text, x[1]) } }

\* the position in the text of the first character of the k-th piece
RECURSIVE PieceStart(_, _)
PieceStart(html, k) ==
  IF k = 1 THEN 1 ELSE PieceStart(html, k - 1) + Len(html[k - 1].text)

\* the spans of the highlighted text, as <<first, last>>
Spans(html) ==
  { <<PieceStart(html, k), PieceStart(html, k) + Len(html[k].text) - 1>> :
      k \in { n \in 1..Len(html) : html[n].hl } }

\* the pieces put together give the text back
RECURSIVE TextOf(_)
TextOf(html) == IF html = <<>> THEN <<>> ELSE Head(html).text \o TextOf(Tail(html))

\* html is the text with a span around the occurrences of the terms of q:
\* every span is an occurrence, and every occurrence that overlaps no
\* other occurrence is a span
Highlighted(html, text, q) ==
  /\ TextOf(html) = text
  /\ Spans(html) \subseteq Occurrences(text, q)
  /\ \A o \in Occurrences(text, q) :
       (\A u \in Occurrences(text, q) : u = o \/ u[2] < o[1] \/ o[2] < u[1])
         => o \in Spans(html)

\* C24: the results of a query are displayed with every occurrence of a
\* term of the query in the title and in the snippet inside a marker span
\* of its own, whatever the case, and nothing else inside a span.
C24_HighlightsEveryOccurrence ==
  Displayed =>
    /\ resultsBox.kind \in {"results", "noresults"}
    /\ \A k \in 1..Len(resultsBox.items) :
         LET item == resultsBox.items[k]
         IN  /\ Highlighted(item.titleHTML, item.title, TypedQuery)
             /\ item.snippet.kind = "line" =>
                  Highlighted(item.snippet.html, item.matchedLines[1].line,
                              TypedQuery)

(***************************************************************************)
(* Click on an entry of the table of contents, under Spec.                 *)
(***************************************************************************)
\* C25: a click on a table-of-contents entry whose heading is on the page
\* makes the heading id the fragment through history.replaceState: the
\* current history entry is replaced, no hashchange event is queued, and
\* apart from the scroll position the page (rendered document, entries of
\* the table of contents), the pagination and the pending rebuilds are as
\* before; nothing is rendered.
C25_TocClickReplacesFragment ==
  [][ lastOp'.op = "tocClick" =>
        /\ pendingHash' = pendingHash
        /\ lastOp'.rendered = <<>>
        /\ lastOp'.history # "push"
        /\ dom' = [dom EXCEPT !.scrolled = dom'.scrolled]
        /\ UNCHANGED <<pagination, tocTimers, files>>
        /\ \A k \in 1..Len(dom.toc) :
             (HeadingPresent(dom, files, k) /\ fragment' = <<dom.toc[k].id>>)
               => lastOp'.history = "replace"
        /\ \/ \E k \in 1..Len(dom.toc) :
                HeadingPresent(dom, files, k) /\ fragment' = <<dom.toc[k].id>>
           \/ UNCHANGED <<fragment, dom>> /\ lastOp'.history = "none"
    ]_vars

\* C25 witness: the second entry was clicked on a rendered document; the
\* fragment is its heading id, no event is pending
C25_Witness ==
  /\ lastOp.op = "tocClick"
  /\ lastOp.history = "replace"
  /\ fragment = <<HeadingIds[2]>>
  /\ dom.content.kind = "doc"
  /\ Len(dom.toc) = 2
  /\ pendingHash = 0

(***************************************************************************)
(* The store after the load, under Spec.                                   *)
(***************************************************************************)
\* C26: the store is written by the load and by nothing else: once the
\* page is set up no step changes the documents, their order, their slugs
\* or their content, and the only step that writes the store is the one
\* that ends the load.
C26_StoreReadOnlyAfterLoad ==
  [][ /\ phase = "ready" => files' = files
      /\ files' # files =>
           /\ phase = "loading"
           /\ lastOp'.op \in {"setup", "setupFailed"}
    ]_vars

\* C26 witness: on a store of three documents a search result was clicked
\* after a fragment change had been handled; the store is that of the load
C26_Witness ==
  /\ phase = "ready"
  /\ lastOp.op = "resultClick"
  /\ Len(files) = 3
  /\ files = AddSlugs(<<DocAb, DocB, DocAa>>)
  /\ dom.content.kind = "doc" /\ dom.content.idx # 0

(***************************************************************************)
(* The fragment change as the only channel, under HeadingIdSpec.             *)
(***************************************************************************)
\* the step replaces the rendered document by another document
DocumentChanges ==
  /\ dom.content.kind = "doc"
  /\ dom'.content.kind = "doc"
  /\ dom'.content.idx # dom.content.idx

\* C27: once the page is set up and every queued fragment-change event is
\* handled, a step replaces the rendered document by another one only if
\* it is the hashchange listener; the render of navigateToSlug for the
\* slug the fragment already holds leaves the rendered document the same.
C27_OnlyFragmentChangeSwitches ==
  [][ (phase = "ready" /\ pendingHash = 0 /\ DocumentChanges) =>
        lastOp'.op = "hashchange"
    ]_vars

(***************************************************************************)
(* The delayed search of docs.js, under Spec.                              *)
(***************************************************************************)
\* the results box shows a result list or the no-results marker
ShowsOutcome(box) == box.kind \in {"results", "noresults"}

\* the step is an input event of the overlay with a query of length >= 2
LongQueryInput ==
  /\ lastOp'.op = "searchInput"
  /\ Len(NormalizeQuery(searchValue')) >= 2

\* C28: in docs.js an input with a normalized query of at least two
\* characters displays "Searching..." and starts a timer that carries the
\* query, without scanning; a result list or the no-results marker is put
\* in the box only by such a timer when it fires, for the query it carries
\* and from the store as it is at that moment. So the outcome of a query is
\* never displayed before its indicator was.
C28_SearchDelayed ==
  [][ impl = "docs" =>
        /\ LongQueryInput =>
             /\ resultsBox' = LoadingBox
             /\ searchTimers' =
                  Append(searchTimers, NormalizeQuery(searchValue'))
        /\ Len(searchTimers') > Len(searchTimers) =>
             /\ LongQueryInput
             /\ resultsBox' = LoadingBox
        /\ (ShowsOutcome(resultsBox') /\ resultsBox' # resultsBox) =>
             /\ lastOp'.op = "searchTimeout"
             /\ searchTimers # <<>>
             /\ Len(Head(searchTimers)) >= 2
             /\ resultsBox' = DisplaySearchResults(
                                ScanFiles(files', 1, Head(searchTimers), <<>>),
                                Head(searchTimers), md')
    ]_vars

\* a timer of docs.js has fired and replaced the indicator by the marker
C28_Witness ==
  /\ impl = "docs"
  /\ lastOp.op = "searchTimeout"
  /\ resultsBox.kind = "noresults"
  /\ searchTimers = <<>>

(***************************************************************************)
(* The snippet and the deep link of a result, under Spec.                  *)
(***************************************************************************)
\* the link shows the first matched line of its result and nothing of the
\* other lines, or the title-match marker when no line matched, and keeps
\* every matched line of the result
SnippetShowsFirst(item, result) ==
  /\ item.slug = result.slug
  /\ item.matchedLines = result.matchedLines
  /\ IF Len(result.matchedLines) > 0
     THEN /\ item.snippet.kind = "line"
          /\ TextOf(item.snippet.html) = result.matchedLines[1].line
     ELSE /\ result.titleMatch
          /\ item.snippet = TitleMatchSnippet

\* the query whose results the step displays: the one the fired timer
\* carries (docs.js), the typed one (body.js)
DisplayedQuery ==
  IF impl = "docs" THEN Head(searchTimers) ELSE NormalizeQuery(searchValue')

\* C29: every link of a displayed result list shows the first matched line
\* of its result as the snippet, or the title-match marker when the result
\* has no matched line, and holds all matched lines of the result; a click
\* on a link in docs.js goes to the slug of its result and, when the result
\* has matched lines, hands the first of them to the deferred
\* scrollToSearchResult.
C29_FirstMatchedLineShown ==
  [][ /\ (resultsBox'.kind = "results" /\ resultsBox' # resultsBox) =>
           LET results == ScanFiles(files', 1, DisplayedQuery, <<>>)
               items == resultsBox'.items
           IN  /\ Len(items) = Len(results)
               /\ \A k \in 1..Len(items) :
                    SnippetShowsFirst(items[k], results[k])
      /\ (impl = "docs" /\ lastOp'.op = "resultClick") =>
           \E k \in 1..Len(resultsBox.items) :
             LET item == resultsBox.items[k]
             IN  /\ fragment' = item.slug
                 /\ scrollTimers' =
                      IF Len(item.matchedLines) > 0
                      THEN Append(scrollTimers,
                                  [line |-> item.matchedLines[1].line,
                                   index |-> item.matchedLines[1].index,
                                   slug |-> item.slug])
                      ELSE scrollTimers
    ]_vars

\* a list is displayed with a result of two different matched lines, whose
\* first is the snippet, and a result that matches by its title only
C29_Witness ==
  /\ resultsBox.kind = "results"
  /\ \E k \in 1..Len(resultsBox.items) :
       LET item == resultsBox.items[k]
       IN  /\ Len(item.matchedLines) = 2
           /\ item.matchedLines[1].line # item.matchedLines[2].line
           /\ TextOf(item.snippet.html) = item.matchedLines[1].line
  /\ \E k \in 1..Len(resultsBox.items) :
       /\ resultsBox.items[k].matchedLines = <<>>
       /\ resultsBox.items[k].snippet = TitleMatchSnippet

(***************************************************************************)
(* The ids and the indentation of the TOC entries, under HeadingIdSpec.    *)
(***************************************************************************)
\* the padding of a TOC link without an inline style: the 16 the inline
\* paddings are counted from
TocLinkPadding == 16

\* the h2..h6 headings of the rendered document as the renderer wrote them,
\* in document order
CollectedHeadings ==
  LET file == files[dom.content.idx + 1]
  IN  SelectSeq([i \in 1..Len(file.headings) |->
                   [rank |-> file.headings[i], id |-> file.ids[i]]],
                LAMBDA h : h.rank \in 2..6)

\* the indentation of a TOC entry beyond that of an h2 entry
ExtraIndent(entry) ==
  IF entry.padding = NoPadding THEN 0 ELSE entry.padding - TocLinkPadding

\* C30: after a rebuild the k-th TOC entry carries the id of the k-th
\* collected h2..h6 heading: the id the heading had at render time, else
\* heading-<k-1>; the indentations of the entries beyond that of an h2 entry
\* are in the proportion of (level - 2), and an entry of deeper rank is
\* indented more than one of shallower rank.
C30_TocIdsAndIndentation ==
  TocRebuilt =>
    /\ Len(dom.toc) = Len(CollectedHeadings)
    /\ \A k \in 1..Len(dom.toc) :
         /\ dom.toc[k].level = CollectedHeadings[k].rank
         /\ dom.toc[k].id = IF CollectedHeadings[k].id # NoId
                            THEN CollectedHeadings[k].id
                            ELSE HeadingIds[k]
    /\ \A j \in 1..Len(dom.toc), k \in 1..Len(dom.toc) :
         /\ ExtraIndent(dom.toc[j]) * (dom.toc[k].level - 2) =
              ExtraIndent(dom.toc[k]) * (dom.toc[j].level - 2)
         /\ dom.toc[j].level < dom.toc[k].level =>
              ExtraIndent(dom.toc[j]) < ExtraIndent(dom.toc[k])

\* the TOC of a document whose second collected heading brought its id:
\* heading-0, intro, heading-2, with the ranks 2, 4, 3
C30_Witness ==
  /\ TocRebuilt
  /\ Len(dom.toc) = 3
  /\ dom.toc[1].id = HeadingIds[1] /\ dom.toc[1].level = 2
  /\ dom.toc[2].id = "intro" /\ dom.toc[2].level = 4
  /\ dom.toc[3].id = HeadingIds[3] /\ dom.toc[3].level = 3

(***************************************************************************)
(* Failures of the renderer in docs.js, under Spec.                        *)
(***************************************************************************)
\* the step is the delayed scan of docs.js and displays a result list
ListDisplayed ==
  /\ impl = "docs"
  /\ lastOp'.op = "searchTimeout"
  /\ resultsBox'.kind = "results"

\* every snippet of the displayed list whose line md.renderInline rejects
\* shows that line as raw text
FailedSnippetsRaw ==
  \A k \in 1..Len(resultsBox'.items) :
    LET item == resultsBox'.items[k]
    IN  (Len(item.matchedLines) > 0
           /\ InlineThrows(item.matchedLines[1].line)) =>
          /\ item.snippet.kind = "line"
          /\ item.snippet.raw
          /\ TextOf(item.snippet.html) = item.matchedLines[1].line

\* the step of docs.js routes to a document on which md.render throws
RoutesToThrowing ==
  /\ impl = "docs"
  /\ RouteStep /\ md
  /\ ThrowsAt(files', fragment)

\* C31 as stated: in docs.js a failure of md.render shows the raw text of
\* the document the fragment names, and a failure of md.renderInline shows
\* the raw matched line as the snippet.
C31_RawTextOnFailure ==
  [][ /\ RoutesToThrowing =>
           dom'.content.idx = FindIndex(files', SlugFromHash(fragment, files'))
      /\ ListDisplayed => FailedSnippetsRaw
    ]_vars

\* C31 amended: in docs.js a failure of md.renderInline shows the raw
\* matched line as the snippet, in a list that still has a link for every
\* result; a failure of md.render is caught and shows the message 'Error
\* rendering markdown content' in place of the document, not its raw text.
C31_FailureDegrades ==
  [][ /\ RoutesToThrowing => dom'.content = RenderErrorContent
      /\ ListDisplayed =>
           /\ FailedSnippetsRaw
           /\ Len(resultsBox'.items) =
                Len(ScanFiles(files', 1, Head(searchTimers), <<>>))
    ]_vars

\* the rendering-failure message is shown and, with the renderer loaded, a
\* displayed snippet is the raw line md.renderInline threw on
C31_Witness ==
  /\ impl = "docs" /\ md
  /\ dom.content = RenderErrorContent
  /\ resultsBox.kind = "results"
  /\ \E k \in 1..Len(resultsBox.items) :
       /\ resultsBox.items[k].snippet.kind = "line"
       /\ resultsBox.items[k].snippet.raw
       /\ InlineThrows(resultsBox.items[k].matchedLines[1].line)

(***************************************************************************)
(* Uncaught exceptions in docs.js, under HighlightSpec.                    *)
(***************************************************************************)
\* C32: no event handler and no timer callback of docs.js ends by an
\* exception that nothing catches, whatever the typed text is: each one
\* completes or turns its failure into a degraded display or a no-op.
C32_NoUncaughtFailure == impl = "docs" => ~lastOp.uncaught

(***************************************************************************)
(* The displayed results and the latest input, under Spec.                 *)
(***************************************************************************)
\* what performSearch of docs.js ends up displaying for the typed text
OutcomeOfTyped ==
  IF Len(TypedQuery) < 2
  THEN HintBox
  ELSE DisplaySearchResults(ScanFiles(files, 1, TypedQuery, <<>>),
                            TypedQuery, md)

\* C33: in docs.js, whenever the last search step is done and no search
\* timer is pending, the results box shows the outcome for the current
\* value of the input: the hint for a text shorter than 2 characters (never
\* the results of an earlier, longer text), else the results of its scan.
C33_SettlesToLatestInput ==
  (impl = "docs" /\ overlayOpen /\ InputHandled /\ searchTimers = <<>>) =>
    resultsBox = OutcomeOfTyped

(***************************************************************************)
(* The hidden overlay, under Spec.                                         *)
(***************************************************************************)
\* C34: in docs.js, while the search overlay is hidden (it takes no input
\* event then) its input and its results box are empty, also after a
\* search timer that was started before the overlay was hidden has fired.
C34_HiddenOverlayStaysEmpty ==
  (impl = "docs" /\ ~overlayOpen) =>
    /\ searchValue = <<>>
    /\ resultsBox = EmptyBox

(***************************************************************************)
(* The delayed scroll and the rendered content, under Spec.                *)
(***************************************************************************)
\* the content is the rendered document of the result whose click started
\* the oldest pending scroll timer
ShowsOwnDocument ==
  /\ dom.content.kind = "doc"
  /\ files[dom.content.idx + 1].slug = Head(scrollTimers).slug

\* C35: when the 300 ms timer of a result click fires in docs.js, every
\* fragment change handled, and the content is not the document of that
\* result (another document or a failure message was rendered meanwhile),
\* scrollToSearchResult asks for no scroll of that content.
C35_ScrollOnlyOwnDocument ==
  [][ (impl = "docs" /\ lastOp'.op = "scrollTimeout" /\ pendingHash = 0
         /\ ~ShowsOwnDocument) =>
        lastOp'.scroll = NoScrollReq
    ]_vars

(***************************************************************************)
(* The table of contents and the displayed content, under Spec.            *)
(***************************************************************************)
\* the connected observer observes exactly the h2..h6 headings of the
\* content: none is connected to headings that left the page
ObserverMatches ==
  IF Len(TocHeadings(dom.content, files)) = 0
  THEN dom.observers = 0
  ELSE dom.observers = 1 /\ dom.observerLive

\* C36: in docs.js, in every state of the set-up page the toc-list holds
\* one entry per h2..h6 heading of the displayed content, in order, and the
\* connected observer observes exactly those headings; when the content
\* has none (a document without headings, the not-found or the
\* rendering-failure message) the list is empty and nothing of the
\* previous document is observed.
C36_TocConsistent ==
  (impl = "docs" /\ phase = "ready") =>
    /\ TocMatches(dom, files)
    /\ ObserverMatches

(***************************************************************************)
(* The targets of the pagination controls, under Spec.                     *)
(***************************************************************************)
\* the step routes to the fragment and reaches updatePagination on a
\* non-empty store (in body.js a throwing loadMarkdown skips it)
PaginationUpdated ==
  /\ RouteStep
  /\ Len(files') > 0
  /\ ~(impl = "body" /\ ThrowsAt(files', fragment))

\* the buttons p agree with the JS index idx of the active document: a
\* control has a target exactly when it is enabled, and then it is the slug
\* of the manifest neighbour
TargetsConsistent(p, idx, fs) ==
  /\ (p.prevTarget # <<>>) <=> ~p.prevDisabled
  /\ (p.nextTarget # <<>>) <=> ~p.nextDisabled
  /\ ~p.prevDisabled => p.prevTarget = fs[idx].slug
  /\ ~p.nextDisabled => p.nextTarget = fs[idx + 2].slug

\* C37: after every pagination update on a non-empty store the previous
\* control has a non-empty target if and only if it is enabled, and so has
\* the next control; an enabled control's target is the slug of the
\* document at index - 1, resp. index + 1, of the active document.
C37_TargetsMatchEnabled ==
  [][ PaginationUpdated =>
        TargetsConsistent(pagination',
                          FindIndex(files', SlugFromHash(fragment, files')),
                          files')
    ]_vars

(***************************************************************************)
(* The walk of the pagination through the manifest, under Spec.            *)
(***************************************************************************)
\* the page is set up on a non-empty store, every fragment-change event is
\* handled, and the fragment names (or, empty, stands for) a document
Settled ==
  /\ phase = "ready"
  /\ Len(files) > 0
  /\ pendingHash = 0
  /\ ActiveIndex # -1

\* the controls lead from the active document to its manifest neighbours:
\* next to the document at index + 1 and disabled on the last one,
\* previous to the one at index - 1 and disabled on the first one
LeadsToNeighbours ==
  /\ ActiveIndex < Len(files) - 1 =>
       /\ ~pagination.nextDisabled
       /\ pagination.nextTarget = files[ActiveIndex + 2].slug
  /\ ActiveIndex = Len(files) - 1 => pagination.nextDisabled
  /\ ActiveIndex > 0 =>
       /\ ~pagination.prevDisabled
       /\ pagination.prevTarget = files[ActiveIndex].slug
  /\ ActiveIndex = 0 => pagination.prevDisabled

\* C38: on a store of pairwise distinct slugs, whenever the page has
\* settled on a document the next control leads to the document after it
\* in the manifest and is disabled on the last, the previous control leads
\* to the one before it and is disabled on the first, and using an enabled
\* control makes its target the fragment and queues its fragment-change
\* event.  So next() from the first document visits every document once in
\* manifest order and stops at the last, and next() then previous() (or
\* previous() then next()) comes back to the same document.
C38_PaginationWalks ==
  [][ /\ Settled' => LeadsToNeighbours'
      /\ (Settled /\ lastOp'.op \in {"clickNext", "arrowRight"}
            /\ ~pagination.nextDisabled) =>
           /\ fragment' = files[ActiveIndex + 2].slug
           /\ pendingHash' = 1
      /\ (Settled /\ lastOp'.op \in {"clickPrev", "arrowLeft"}
            /\ ~pagination.prevDisabled) =>
           /\ fragment' = files[ActiveIndex].slug
           /\ pendingHash' = 1
    ]_vars

(***************************************************************************)
(* The search comes to an outcome, under HighlightLiveSpec.                *)
(***************************************************************************)
\* the input listener of docs.js has just run for a text of normalized
\* length >= 2
LongQueryEntered ==
  /\ impl = "docs"
  /\ lastOp.op = "searchInput"
  /\ Len(TypedQuery) >= 2

\* C39: in docs.js every input of a text of normalized length >= 2 is
\* eventually followed by a results box that shows a result list or the
\* no-results marker, and the delayed scan never leaves the box empty,
\* whatever characters the text has and whatever the store holds.
C39_SearchComesToOutcome ==
  /\ LongQueryEntered ~> ShowsOutcome(resultsBox)
  /\ []((impl = "docs" /\ lastOp.op = "searchTimeout") =>
          resultsBox # EmptyBox)

====
